---- MODULE Spec2Model ----
(***************************************************************************)
(* Model of the serialisation and statistics core of the Stanza linguistic *)
(* suite: doc_to_tsv (modules/stanza_demo.py) and load_tsv and the Stats   *)
(* Engine functions (modules/stats.py).                                    *)
(*                                                                         *)
(* Representation.                                                         *)
(*  - A Python str is a TLA+ string.  None (for a str attribute) and a     *)
(*    pandas missing cell are the marker strings None and NaN, which are   *)
(*    no member of any vocabulary below.                                   *)
(*  - A nullable integer (Word.head, an Int64 cell) is <<>> (null) or      *)
(*    <<n>>.                                                               *)
(*  - Python positions are 0-based; sequences here are 1-based, so a       *)
(*    position p of the code is p + 1 here.                                *)
(*  - The tabular text is kept as its lines, each line as its cells: the   *)
(*    vocabularies hold no tab, newline or quote character, so joining on  *)
(*    "\t" / "\n" and splitting again keeps the cells as they are.         *)
(*  - A percentage is an integer number of hundredths (27.78 is 2778).     *)
(***************************************************************************)
EXTENDS Integers, Sequences, FiniteSets, TLC

VARIABLES pc, doc, tsv, df, args, out

vars == <<pc, doc, tsv, df, args, out>>

(***************************************************************************)
(* Bounds.                                                                 *)
(***************************************************************************)
MaxSents == 3

MaxToks == 3

MaxEnts == 2

MaxRows == 4

MaxWindow == 2

MaxTop == 2

MaxColRows == 2

MaxPosRows == 18

MaxLexemes == 5

MaxLoadRows == 2

\* Calls in a session on one table.
MaxCalls == 3

\* Workers started in a run of the GUI.
MaxWorkers == 2

None == "<None>"

NaN == "<NaN>"

Null == <<>>

Some(n) == <<n>>

Val(o) == o[1]

(***************************************************************************)
(* Generic helpers: ranges, folds, str() of an integer.                    *)
(***************************************************************************)
Range(s) == {s[i] : i \in DOMAIN s}

RECURSIVE SumSeq(_)
SumSeq(s) == IF s = <<>> THEN 0 ELSE s[1] + SumSeq(Tail(s))

\* The sum of f over the set S of its arguments.
RECURSIVE SumFn(_, _)
SumFn(f, S) ==
    IF S = {} THEN 0
    ELSE LET x == CHOOSE x \in S : TRUE IN f[x] + SumFn(f, S \ {x})

RECURSIVE Flatten(_)
Flatten(ss) == IF ss = <<>> THEN <<>> ELSE ss[1] \o Flatten(Tail(ss))

Digits == <<"0", "1", "2", "3", "4", "5", "6", "7", "8", "9">>

RECURSIVE IntToStr(_)
IntToStr(n) ==
    IF n < 10 THEN Digits[n + 1]
    ELSE IntToStr(n \div 10) \o Digits[(n % 10) + 1]

\* sorted(xs) for a list of distinct integers given as a set
RECURSIVE SortedAsc(_)
SortedAsc(S) ==
    IF S = {} THEN <<>>
    ELSE LET m == CHOOSE x \in S : \A y \in S : x <= y
         IN  <<m>> \o SortedAsc(S \ {m})

\* Only None replaced, the empty string kept.
NoneDefault(x, d) == IF x = None THEN d ELSE x

\* x or d: a str attribute that is None or empty is falsy
OrDefault(x, d) == IF x = None \/ x = "" THEN d ELSE x

(***************************************************************************)
(* doc_to_tsv.                                                             *)
(***************************************************************************)
Header == <<"sent_ix", "tok_ix", "FORM", "LEMMA", "UPOS", "XPOS", "HEAD",
            "DEPREL", "NER">>

\* token_positions: Token object -> its position in sent.tokens.  A Token
\* object is named by its oid; a dict comprehension keeps the last position
\* of a repeated key.
TokenPositions(tokens) ==
    [o \in {tokens[i].oid : i \in DOMAIN tokens} |->
        CHOOSE i \in DOMAIN tokens :
            /\ tokens[i].oid = o
            /\ \A j \in DOMAIN tokens : tokens[j].oid = o => j <= i]

\* idxs = sorted([token_positions[t] for t in toks if t in token_positions])
EntIdxs(ent, tokens) ==
    LET tp == TokenPositions(tokens)
    IN  SortedAsc({tp[ent.tokens[k]] :
                     k \in {k \in DOMAIN ent.tokens : ent.tokens[k] \in DOMAIN tp}})

\* MarkEntity with the I- loop of lines 60-61 left out.
MarkEntityFirstOnly(tags, ent, tokens) ==
    IF ent.tokens = <<>> THEN tags
    ELSE LET idxs == EntIdxs(ent, tokens)
         IN  IF idxs = <<>> THEN tags
             ELSE [i \in DOMAIN tags |->
                     IF i = idxs[1] THEN "B-" \o ent.type ELSE tags[i]]

\* MarkEntity with a Token that is absent counted as the first position of
\* the Sentence, in place of skipped.
MarkEntityAbsentAsFirst(tags, ent, tokens) ==
    IF ent.tokens = <<>> THEN tags
    ELSE LET idxs == EntIdxs(ent, tokens)
             all  == IF Len(idxs) = Len(ent.tokens) THEN Range(idxs)
                     ELSE Range(idxs) \cup {1}
         IN  [i \in DOMAIN tags |->
                 IF i \in all /\ \A j \in all : i <= j THEN "B-" \o ent.type
                 ELSE IF i \in all THEN "I-" \o ent.type
                 ELSE tags[i]]

\* MarkEntity with I- on every Token of the Entity, the first included.
MarkEntityInsideOnly(tags, ent, tokens) ==
    IF ent.tokens = <<>> THEN tags
    ELSE LET idxs == EntIdxs(ent, tokens)
         IN  [i \in DOMAIN tags |->
                 IF i \in Range(idxs) THEN "I-" \o ent.type ELSE tags[i]]

\* One Entity written into bio_tags (lines 52-61).
MarkEntity(tags, ent, tokens) ==
    IF ent.tokens = <<>> THEN tags
    ELSE LET idxs == EntIdxs(ent, tokens)
         IN  IF idxs = <<>> THEN tags
             ELSE [i \in DOMAIN tags |->
                     IF i = idxs[1] THEN "B-" \o ent.type
                     ELSE IF i \in Range(Tail(idxs)) THEN "I-" \o ent.type
                     ELSE tags[i]]

\* MarkEntities with the Entities written last to first, so that the label of
\* the first Entity stays.
RECURSIVE MarkEntitiesFirstStays(_, _, _)
MarkEntitiesFirstStays(tags, ents, tokens) ==
    IF ents = <<>> THEN tags
    ELSE MarkEntity(MarkEntitiesFirstStays(tags, Tail(ents), tokens), ents[1], tokens)

\* for ent in sent.ents (line 51): the Entities written in their order.
RECURSIVE MarkEntities(_, _, _)
MarkEntities(tags, ents, tokens) ==
    IF ents = <<>> THEN tags
    ELSE MarkEntities(MarkEntity(tags, ents[1], tokens), Tail(ents), tokens)

\* bio_tags of one Sentence (lines 44-61).
BioTags(sent) ==
    MarkEntities([i \in DOMAIN sent.tokens |-> "O"], sent.ents, sent.tokens)

\* TsvRow with the text of the first Word as FORM, in place of the Token's.
TsvRowWordText(s_ix, t_ix, tok, bio) ==
    LET w == tok.words[1]
    IN  << IntToStr(s_ix),
           IntToStr(t_ix),
           w.text,
           OrDefault(w.lemma, "_"),
           OrDefault(w.upos, "_"),
           OrDefault(w.xpos, "_"),
           IntToStr(IF w.head # Null THEN Val(w.head) ELSE 0),
           OrDefault(w.deprel, "_"),
           bio >>

\* One data row (lines 64-76): the cells after map(str, ...).
TsvRow(s_ix, t_ix, tok, bio) ==
    LET w == tok.words[1]
    IN  << IntToStr(s_ix),
           IntToStr(t_ix),
           tok.text,
           OrDefault(w.lemma, "_"),
           OrDefault(w.upos, "_"),
           OrDefault(w.xpos, "_"),
           IntToStr(IF w.head # Null THEN Val(w.head) ELSE 0),
           OrDefault(w.deprel, "_"),
           bio >>

\* SentRows with enumerate(...) left at its default start of 0.
SentRowsFromZero(s_ix, sent) ==
    LET bio == BioTags(sent)
    IN  [t_ix \in DOMAIN sent.tokens |->
            TsvRow(s_ix, t_ix - 1, sent.tokens[t_ix], bio[t_ix])]

\* The data rows of one Sentence (lines 64-76).
SentRows(s_ix, sent) ==
    LET bio == BioTags(sent)
    IN  [t_ix \in DOMAIN sent.tokens |->
            TsvRow(s_ix, t_ix, sent.tokens[t_ix], bio[t_ix])]

\* The lines of the text doc_to_tsv returns: the header, then the data rows.
DocToTsvLines(d) ==
    <<Header>> \o Flatten([s_ix \in DOMAIN d |-> SentRows(s_ix, d[s_ix])])

(***************************************************************************)
(* load_tsv: pd.read_csv(sep="\t") with its defaults, then the             *)
(* normalisations.  A parsed cell is a record: [t |-> "nan"],              *)
(* [t |-> "str", s |-> ...], [t |-> "int", n |-> ...] or                   *)
(* [t |-> "float", n |-> floor, integral |-> ..., s |-> repr].             *)
(***************************************************************************)
\* Cells that read_csv takes for a missing value (a part of its default list).
NaValues == {"", "NA", "N/A", "NULL", "NaN", "nan", "null", "<NA>", "n/a"}

\* The integers the tabular text can hold in this model.
IntLits == 0 .. 12

\* The numeric literals of the vocabularies: the decimal integers, an integer
\* with a leading zero, and one non-integral number.
NumLit ==
    [s \in {IntToStr(n) : n \in IntLits} \cup {"07", "1.5"} |->
        IF s = "07" THEN [n |-> 7, integral |-> TRUE, s |-> "7.0"]
        ELSE IF s = "1.5" THEN [n |-> 1, integral |-> FALSE, s |-> "1.5"]
        ELSE LET k == CHOOSE k \in IntLits : IntToStr(k) = s
             IN  [n |-> k, integral |-> TRUE, s |-> s \o ".0"]]

\* The C parser's type inference for one column: the cells of the column in,
\* the parsed cells out.
ParseColumn(cells) ==
    LET isna(i) == cells[i] \in NaValues
        present == {i \in DOMAIN cells : ~isna(i)}
        numeric == /\ present # {}
                   /\ \A i \in present : cells[i] \in DOMAIN NumLit
        asint   == /\ numeric
                   /\ present = DOMAIN cells
                   /\ \A i \in present : NumLit[cells[i]].integral
    IN  [i \in DOMAIN cells |->
            IF isna(i) THEN [t |-> "nan"]
            ELSE IF asint THEN [t |-> "int", n |-> NumLit[cells[i]].n]
            ELSE IF numeric
                 THEN [t |-> "float", n |-> NumLit[cells[i]].n,
                       integral |-> NumLit[cells[i]].integral,
                       s |-> NumLit[cells[i]].s]
            ELSE [t |-> "str", s |-> cells[i]]]

\* str(v) of a parsed cell, as astype(str) gives it
AsStr(c) ==
    CASE c.t = "nan"   -> "nan"
      [] c.t = "str"   -> c.s
      [] c.t = "int"   -> IntToStr(c.n)
      [] c.t = "float" -> c.s

\* df[col].fillna(default).astype(str)   (line 46)
FillnaStr(c, default) == IF c.t = "nan" THEN default ELSE AsStr(c)

\* pd.to_numeric(cell, errors="coerce"): a number, or nan
ToNumeric(c) ==
    IF c.t = "str"
    THEN IF c.s \in DOMAIN NumLit
         THEN [t |-> "float", n |-> NumLit[c.s].n,
               integral |-> NumLit[c.s].integral, s |-> NumLit[c.s].s]
         ELSE [t |-> "nan"]
    ELSE c

IsIntegral(c) == c.t = "nan" \/ c.t = "int" \/ (c.t = "float" /\ c.integral)

\* .astype("Int64") of a coerced cell   (lines 50, 52)
ToInt64(c) == IF c.t = "nan" THEN Null ELSE Some(c.n)

\* .fillna(0).astype(int) of a coerced cell   (line 54)
ToInt(c) == IF c.t = "nan" THEN 0 ELSE c.n

\* A cell of a column that load_tsv leaves as read_csv made it.
AsRead(c) == IF c.t = "nan" THEN NaN ELSE AsStr(c)

\* The columns load_tsv normalises and their defaults   (lines 38-44)
StrDefaults ==
    ("UPOS" :> "_") @@ ("LEMMA" :> "_") @@ ("NER" :> "O") @@ ("DEPREL" :> "_")
        @@ ("FORM" :> "_")

ColIx(header, c) == CHOOSE j \in DOMAIN header : header[j] = c

\* The table load_tsv returns for the lines of an existing file, or the error
\* it raises.
LoadTsvTable(lines) ==
    LET header == lines[1]
        n      == Len(lines) - 1
        raw(c) == [i \in 1 .. n |-> lines[i + 1][ColIx(header, c)]]
        num(c) == LET p == ParseColumn(raw(c)) IN [i \in 1 .. n |-> ToNumeric(p[i])]
        bad    == \E c \in Range(header) \cap {"sent_ix", "tok_ix"} :
                      \E i \in 1 .. n : ~IsIntegral(num(c)[i])
        col(c) == LET p == ParseColumn(raw(c))
                  IN  [i \in 1 .. n |->
                        IF c \in DOMAIN StrDefaults THEN FillnaStr(p[i], StrDefaults[c])
                        ELSE IF c \in {"sent_ix", "tok_ix"} THEN ToInt64(num(c)[i])
                        ELSE IF c = "HEAD" THEN ToInt(num(c)[i])
                        ELSE AsRead(p[i])]
    IN  IF bad THEN [kind |-> "TypeError"]
        ELSE [kind |-> "ok",
              cols |-> header,
              rows |-> LET cs == [c \in Range(header) |-> col(c)]
                       IN  [i \in 1 .. n |-> [c \in Range(header) |-> cs[c][i]]]]

(***************************************************************************)
(* Documents.  A Token object is named by its oid <<sentence, position>>.  *)
(***************************************************************************)
BaseWord ==
    [id |-> 1, text |-> "a", lemma |-> "a", upos |-> "NOUN", xpos |-> "n",
     feats |-> "f", head |-> Some(0), deprel |-> "root"]

NoneWord ==
    [id |-> 1, text |-> "a", lemma |-> None, upos |-> None, xpos |-> None,
     feats |-> None, head |-> Null, deprel |-> None]

PlainToken(s, i) == [oid |-> <<s, i>>, text |-> "a", words |-> <<BaseWord>>]

PlainTokens(s, n) == [i \in 1 .. n |-> PlainToken(s, i)]

EntTypes == {"PER", "LOC"}

\* The Entities a Sentence of n Tokens can carry: a type and the Tokens it
\* covers, in ascending order.  <<1, n + 1>> is a Token of no Sentence here
\* (the defensive case of line 56); it comes with at most one Token of the
\* Sentence.
EntityTokenSets(n) ==
    SUBSET (1 .. n) \cup {S \cup {n + 1} : S \in {{}} \cup {{i} : i \in 1 .. n}}

Entities(n) ==
    {[type |-> ty, text |-> "e",
      tokens |-> LET ix == SortedAsc(S) IN [k \in DOMAIN ix |-> <<1, ix[k]>>]] :
     ty \in EntTypes, S \in EntityTokenSets(n)}

Lemmas == {None, "", "a", "NA"}

Tags == {None, "", "NOUN"}

Heads == {Null, Some(0), Some(2), Some(9)}

\* Every annotation a first Word can carry.
Words ==
    {[id |-> 1, text |-> "a", lemma |-> l, upos |-> u, xpos |-> x, feats |-> f,
      head |-> h, deprel |-> d] :
     l \in Lemmas, u \in Tags, x \in {None, "", "n"}, f \in {None, "f"},
     h \in Heads, d \in {None, "", "obj"}}

Forms == {"a", "B", "NA", "null", "7", "07"}

\* Tokens of varied surface text; the last is a multi-word Token.
TextTokens ==
    {[text |-> f, words |-> <<w>>] : f \in Forms, w \in {BaseWord, NoneWord}}
        \cup {[text |-> "del", words |-> <<[BaseWord EXCEPT !.text = "de"],
                                           [NoneWord EXCEPT !.id = 2, !.text = "el"]>>]}

\* Documents of up to MaxSents Sentences of 0..MaxToks Tokens, no Entity.
ShapeDoc(lens) ==
    [s \in DOMAIN lens |->
        [text |-> "t", tokens |-> PlainTokens(s, lens[s]), ents |-> <<>>]]

\* Documents of one Sentence of n Tokens with the Entities es.
EntityDoc(n, es) == <<[text |-> "t", tokens |-> PlainTokens(1, n), ents |-> es]>>

\* Documents of one Token whose first Word is w.
WordDoc(w) ==
    <<[text |-> "t", ents |-> <<>>,
       tokens |-> <<[oid |-> <<1, 1>>, text |-> "a", words |-> <<w>>]>>]>>

\* Documents of one Sentence of Tokens of varied text.
TextDoc(ts) ==
    <<[text |-> "t", ents |-> <<>>,
       tokens |-> [i \in DOMAIN ts |->
                     [oid |-> <<1, i>>, text |-> ts[i].text, words |-> ts[i].words]]]>>

NoFile == [exists |-> FALSE]

File(lines) == [exists |-> TRUE, lines |-> lines]

NoDoc == <<>>

NoTable == [kind |-> "none"]

NoArgs == [fn |-> "none"]

NoOut == [kind |-> "none"]

(***************************************************************************)
(* Serialising a Document and loading the text back.                       *)
(***************************************************************************)
InitTsv ==
    /\ \/ \E k \in 0 .. MaxSents : \E lens \in [1 .. k -> 0 .. MaxToks] :
              doc = ShapeDoc(lens)
       \/ \E n \in 0 .. MaxToks, k \in 1 .. MaxEnts : \E es \in [1 .. k -> Entities(n)] :
              doc = EntityDoc(n, es)
       \/ \E w \in Words : doc = WordDoc(w)
       \/ \E k \in 1 .. MaxToks : \E ts \in [1 .. k -> TextTokens] :
              doc = TextDoc(ts)
    /\ pc = "doc"
    /\ tsv = NoFile
    /\ df = NoTable
    /\ args = NoArgs
    /\ out = NoOut

\* main(): Path(args.save_tsv).write_text(doc_to_tsv(doc))
DocToTsv ==
    /\ pc = "doc"
    /\ tsv' = File(DocToTsvLines(doc))
    /\ pc' = "tsv"
    /\ UNCHANGED <<doc, df, args, out>>

\* load_tsv(tsv_path)
LoadTsv ==
    /\ pc = "tsv"
    /\ IF ~tsv.exists
       THEN /\ out' = [kind |-> "FileNotFoundError"]
            /\ pc' = "failed"
            /\ df' = df
       ELSE LET t == LoadTsvTable(tsv.lines)
            IN  IF t.kind = "ok"
                THEN df' = t /\ pc' = "loaded" /\ out' = out
                ELSE df' = df /\ pc' = "failed" /\ out' = t
    /\ UNCHANGED <<doc, tsv, args>>

NextTsv == DocToTsv \/ LoadTsv

SpecTsv == InitTsv /\ [][NextTsv]_vars

(***************************************************************************)
(* The Stats Engine.  A table is [kind |-> "ok", cols |-> the column names *)
(* in order, rows |-> the rows, each a function from column name to cell]. *)
(* A call returns [kind |-> "ok", ...] or the error it raises,             *)
(* [kind |-> "ValueError" or "KeyError", names |-> the column names the    *)
(* message holds].                                                         *)
(***************************************************************************)
\* The strings that the model compares, in code point order (Python's order
\* on str): upper case before "_" before lower case.
CodePointOrder ==
    <<"ADJ", "B", "NOUN", "VERB", "_", "a", "b", "c", "nsubj", "obj", "root">>

StrRank(s) == CHOOSE i \in DOMAIN CodePointOrder : CodePointOrder[i] = s

StrLeq(a, b) == StrRank(a) <= StrRank(b)

\* str.lower()
Lower(s) ==
    CASE s = "B" -> "b"
      [] s = "ADJ" -> "adj"
      [] s = "NOUN" -> "noun"
      [] s = "VERB" -> "verb"
      [] OTHER -> s

HasCol(t, c) == c \in Range(t.cols)

ValueError(names) == [kind |-> "ValueError", names |-> names]

KeyError(names) == [kind |-> "KeyError", names |-> names]

\* left, right = (a, b): the pair as met, not sorted.
UnsortedPair(a, b) == <<a, b>>

\* left, right = sorted((a, b))   (line 153)
SortedPair(a, b) == IF StrLeq(a, b) THEN <<a, b>> ELSE <<b, a>>

\* The positions (i, j) the two loops of lines 147-151 visit for n tokens.
WindowPositions(n, window) ==
    {p \in (1 .. n) \X (1 .. n) :
        /\ p[2] # p[1]
        /\ p[2] >= p[1] - window
        /\ p[2] <= p[1] + window}

\* The counter `pairs` after the loops over one token list (lines 146-154).
PairCounts(tokens, window) ==
    LET pos    == WindowPositions(Len(tokens), window)
        key(p) == SortedPair(tokens[p[1]], tokens[p[2]])
    IN  [k \in {key(p) : p \in pos} |-> Cardinality({p \in pos : key(p) = k})]

CountIn(c, k) == IF k \in DOMAIN c THEN c[k] ELSE 0

MergeCounts(c1, c2) ==
    [k \in DOMAIN c1 \cup DOMAIN c2 |-> CountIn(c1, k) + CountIn(c2, k)]

\* An Int64 key for sort_values: a missing value sorts last.
IxLeq(a, b) == b = Null \/ (a # Null /\ Val(a) <= Val(b))

\* g.sort_values("tok_ix") with the default kind="quicksort", which is not
\* stable: every order of the rows that ascends in tok_ix.
RECURSIVE TokIxOrders(_)
TokIxOrders(rows) ==
    IF rows = <<>> THEN {<<>>}
    ELSE LET first == {i \in DOMAIN rows :
                          \A j \in DOMAIN rows : IxLeq(rows[i].tok_ix, rows[j].tok_ix)}
         IN  UNION {{<<rows[i]>> \o rest :
                       rest \in TokIxOrders([j \in 1 .. Len(rows) - 1 |->
                                                IF j < i THEN rows[j] ELSE rows[j + 1]])} :
                    i \in first}

\* The counter after one group: one outcome for each order of its rows.
GroupCounts(rows, window) ==
    {PairCounts([i \in DOMAIN o |-> o[i].tok], window) : o \in TokIxOrders(rows)}

RECURSIVE GroupsCounts(_, _)
GroupsCounts(groups, window) ==
    IF groups = <<>> THEN {<<>>}
    ELSE {MergeCounts(c1, c2) : c1 \in GroupCounts(groups[1], window),
                                c2 \in GroupsCounts(Tail(groups), window)}

\* x of lines 126-133: the rows kept, each with its token.
CoocRows(t, a) ==
    LET col    == IF a.use_lemma THEN "LEMMA" ELSE "FORM"
        tok(r) == IF a.lowercase THEN Lower(r[col]) ELSE r[col]
        excl   == {IF a.lowercase THEN Lower(e) ELSE e : e \in a.exclude}
        x      == [i \in DOMAIN t.rows |->
                     [sent_ix |-> t.rows[i]["sent_ix"], tok_ix |-> t.rows[i]["tok_ix"],
                      tok |-> tok(t.rows[i])]]
    IN  SelectSeq(x, LAMBDA r : r.tok \notin excl)

\* groups of lines 137-141: by sentence in ascending sent_ix, rows of a
\* missing sent_ix dropped, or the whole table as one group.
CoocGroups(x, by_sent) ==
    IF by_sent
    THEN LET ids == SortedAsc({Val(x[i].sent_ix) : i \in {i \in DOMAIN x : x[i].sent_ix # Null}})
         IN  [g \in DOMAIN ids |-> SelectSeq(x, LAMBDA r : r.sent_ix = Some(ids[g]))]
    ELSE <<x>>

\* sort_values("count", ascending=False), not stable: every order of the pairs
\* that descends in count.
RECURSIVE CountOrders(_, _)
CountOrders(c, keys) ==
    IF keys = {} THEN {<<>>}
    ELSE LET top == {k \in keys : \A k2 \in keys : c[k] >= c[k2]}
         IN  UNION {{<<[left |-> k[1], right |-> k[2], count |-> c[k]]>> \o rest :
                       rest \in CountOrders(c, keys \ {k})} : k \in top}

\* out.head(top) for top >= 0
HeadRows(rows, top) == SubSeq(rows, 1, IF top < Len(rows) THEN top ELSE Len(rows))

\* lines 158-159: `if top: out = out.head(top)`; None and 0 are falsy.
Truncate(rows, top) ==
    IF top # Null /\ Val(top) # 0 THEN HeadRows(rows, Val(top)) ELSE rows

\* Every result cooccurrences_within_window can return or raise for table t
\* and parameters a.
CoocResults(t, a) ==
    IF ~HasCol(t, "FORM") \/ ~HasCol(t, "LEMMA")
    THEN {ValueError({"FORM", "LEMMA"})}
    ELSE IF ~HasCol(t, "sent_ix") \/ ~HasCol(t, "tok_ix")
    THEN {KeyError({"sent_ix", "tok_ix"} \ Range(t.cols))}
    ELSE LET cs == GroupsCounts(CoocGroups(CoocRows(t, a), a.by_sent), a.window)
         IN  UNION {IF DOMAIN c = {}
                    THEN {KeyError({"count"})}
                    ELSE {[kind |-> "ok", rows |-> Truncate(rows, a.top)] :
                            rows \in CountOrders(c, DOMAIN c)} : c \in cs}

\* The cells of column c, top to bottom.
Column(t, c) == [i \in DOMAIN t.rows |-> t.rows[i][c]]

\* Series.value_counts(): each distinct value with its number of occurrences.
\* The result descends in count; the order among equal counts is whatever the
\* sort leaves, so the result is kept as the function from value to count.
ValueCounts(cells) ==
    [v \in Range(cells) |-> Cardinality({i \in DOMAIN cells : cells[i] = v})]

\* round-half-even of num / den, as numpy rounds
RoundHalfEven(num, den) ==
    LET q == num \div den
        r == num % den
    IN  IF 2 * r > den \/ (2 * r = den /\ q % 2 = 1) THEN q + 1 ELSE q

\* Truncation in place of rounding.
PercentTruncated(count, total) == (count * 10000) \div total

\* (count / total * 100).round(2), in hundredths
Percent(count, total) == RoundHalfEven(count * 10000, total)

\* pos_counts(df): the rows of the result   (lines 61-67)
PosCounts(t) ==
    IF ~HasCol(t, "UPOS") THEN ValueError({"UPOS"})
    ELSE LET s == ValueCounts(Column(t, "UPOS"))
             total == SumFn(s, DOMAIN s)
         IN  [kind |-> "ok",
              rows |-> {[UPOS |-> v, count |-> s[v], percent |-> Percent(s[v], total)] :
                          v \in DOMAIN s}]

\* s.head(top) of a value_counts result: top rows of the highest counts; which
\* of the rows of the last count admitted are kept is left to the sort.
HeadOfCounts(s, top) ==
    LET n == IF top < Cardinality(DOMAIN s) THEN top ELSE Cardinality(DOMAIN s)
    IN  {K \in SUBSET DOMAIN s :
            /\ Cardinality(K) = n
            /\ \A v \in K : \A w \in DOMAIN s \ K : s[v] >= s[w]}

CountRows(s, K, name) == {(name :> v) @@ ("count" :> s[v]) : v \in K}

\* Series.value_counts() as a list: the values in descending count.  It
\* sorts with sort_values, whose default kind is not stable: every order of
\* the values that descends in count.
RECURSIVE ValueCountOrders(_, _)
ValueCountOrders(s, keys) ==
    IF keys = {} THEN {<<>>}
    ELSE LET top == {k \in keys : \A k2 \in keys : s[k] >= s[k2]}
         IN  UNION {{<<k>> \o rest : rest \in ValueCountOrders(s, keys \ {k})} : k \in top}

\* lemma_freqs(df, top)   (lines 69-73)
LemmaFreqs(t, a) ==
    IF ~HasCol(t, "LEMMA") THEN {ValueError({"LEMMA"})}
    ELSE LET s == ValueCounts(Column(t, "LEMMA"))
         IN  {[kind |-> "ok",
               rows |-> HeadRows([i \in DOMAIN o |->
                                    ("LEMMA" :> o[i]) @@ ("count" :> s[o[i]])], a.top)] :
              o \in ValueCountOrders(s, DOMAIN s)}

\* ner_counts(df, drop_o)   (lines 75-82)
NerCounts(t, a) ==
    IF ~HasCol(t, "NER") THEN ValueError({"NER"})
    ELSE LET col == Column(t, "NER")
             s   == ValueCounts(IF a.drop_o THEN SelectSeq(col, LAMBDA v : v # "O") ELSE col)
         IN  [kind |-> "ok", rows |-> CountRows(s, DOMAIN s, "NER_tag")]

\* deprel_counts(df)   (lines 84-88)
DeprelCounts(t) ==
    IF ~HasCol(t, "DEPREL") THEN ValueError({"DEPREL"})
    ELSE LET s == ValueCounts(Column(t, "DEPREL"))
         IN  [kind |-> "ok", rows |-> CountRows(s, DOMAIN s, "DEPREL")]

\* top_lemmas_by_upos(df, upos, top)   (lines 93-100)
TopLemmasByUpos(t, a) ==
    IF ~HasCol(t, "UPOS") THEN {ValueError({"UPOS"})}
    ELSE IF ~HasCol(t, "LEMMA") THEN {ValueError({"LEMMA"})}
    ELSE LET sub == SelectSeq(t.rows, LAMBDA r : r["UPOS"] = a.upos)
             s   == ValueCounts([i \in DOMAIN sub |-> sub[i]["LEMMA"]])
         IN  {[kind |-> "ok", rows |-> CountRows(s, K, "LEMMA")] : K \in HeadOfCounts(s, a.top)}

\* sentence_lengths(df)   (lines 102-107): groupby drops the rows of a missing
\* sent_ix and lists the groups in ascending sent_ix; ["FORM"] on a table
\* without that column raises KeyError.
SentenceLengths(t) ==
    IF ~HasCol(t, "sent_ix") THEN ValueError({"sent_ix"})
    ELSE IF ~HasCol(t, "FORM") THEN KeyError({"FORM"})
    ELSE LET ids == SortedAsc({Val(r["sent_ix"]) : r \in {r \in Range(t.rows) : r["sent_ix"] # Null}})
         IN  [kind |-> "ok",
              rows |-> [g \in DOMAIN ids |->
                         [sent_ix |-> ids[g],
                          length |-> Cardinality({i \in DOMAIN t.rows :
                                                    /\ t.rows[i]["sent_ix"] = Some(ids[g])
                                                    /\ t.rows[i]["FORM"] # NaN})]]]

\* sorted distinct strings, ascending in code point order
RECURSIVE SortedStrs(_)
SortedStrs(S) ==
    IF S = {} THEN <<>>
    ELSE LET m == CHOOSE x \in S : \A y \in S : StrLeq(x, y)
         IN  <<m>> \o SortedStrs(S \ {m})

\* pd.crosstab cell: the rows with this (DEPREL, UPOS) pair
CrossCount(t, d, u) ==
    Cardinality({i \in DOMAIN t.rows : t.rows[i]["DEPREL"] = d /\ t.rows[i]["UPOS"] = u})

\* The total of the whole table in place of the row's total.
GrandTotal(t, d) == Len(t.rows)

\* ctab.sum(axis=1) for row d   (line 173)
RowTotal(t, d) == Cardinality({i \in DOMAIN t.rows : t.rows[i]["DEPREL"] = d})

\* (count / total * 100).round(2): 0 / 0 is NaN, kept as a null cell
PercentCell(count, total) == IF total = 0 THEN Null ELSE Some(Percent(count, total))

\* dependency_role_matrix(df)   (lines 162-177)
DependencyRoleMatrix(t) ==
    IF ~HasCol(t, "DEPREL") THEN ValueError({"DEPREL"})
    ELSE IF ~HasCol(t, "UPOS") THEN ValueError({"UPOS"})
    ELSE LET ds == SortedStrs(Range(Column(t, "DEPREL")))
             us == SortedStrs(Range(Column(t, "UPOS")))
         IN  [kind |-> "ok", index |-> ds, columns |-> us,
              cells |-> [d \in Range(ds) |->
                           [u \in Range(us) |->
                              PercentCell(CrossCount(t, d, u), RowTotal(t, d))]]]

(***************************************************************************)
(* Tables, as load_tsv returns them: the rows of one or two sentences in   *)
(* the order of the text.                                                  *)
(***************************************************************************)
TableRow(s, t, form, lemma, upos, deprel, ner) ==
    ("sent_ix" :> s) @@ ("tok_ix" :> t) @@ ("FORM" :> form) @@ ("LEMMA" :> lemma)
        @@ ("UPOS" :> upos) @@ ("XPOS" :> "n") @@ ("HEAD" :> 0)
        @@ ("DEPREL" :> deprel) @@ ("NER" :> ner)

Table(rows) == [kind |-> "ok", cols |-> Header, rows |-> rows]

\* The LEMMA cell that goes with each FORM cell.
LemmaOf == ("a" :> "a") @@ ("B" :> "b") @@ ("c" :> "B")

\* The table of the items (form, upos, deprel, ner), one row each: the first
\* `split` rows are sentence 1, the others sentence 2.
StatTable(items, split) ==
    Table([i \in DOMAIN items |->
             TableRow(Some(IF i <= split THEN 1 ELSE 2),
                      Some(IF i <= split THEN i ELSE i - split),
                      items[i].form, LemmaOf[items[i].form], items[i].upos,
                      items[i].deprel, items[i].ner)])

\* The table without column c.
DropColumn(t, c) ==
    [kind |-> "ok",
     cols |-> SelectSeq(t.cols, LAMBDA h : h # c),
     rows |-> [i \in DOMAIN t.rows |-> [h \in DOMAIN t.rows[i] \ {c} |-> t.rows[i][h]]]]

CoocForms == {"a", "B", "c"}

CoocItems == {[form |-> f, upos |-> "NOUN", deprel |-> "root", ner |-> "O"] : f \in CoocForms}

CoocArgs ==
    [fn : {"cooc"}, window : 0 .. MaxWindow, by_sent : BOOLEAN, lowercase : {TRUE},
     exclude : {{}}, use_lemma : {FALSE}, top : {Null}]
    \cup
    [fn : {"cooc"}, window : {1}, by_sent : {TRUE}, lowercase : {TRUE},
     exclude : {{}}, use_lemma : {FALSE}, top : {Some(k) : k \in 0 .. MaxTop}]
    \cup
    [fn : {"cooc"}, window : {1}, by_sent : {TRUE}, lowercase : BOOLEAN,
     exclude : {{}, {"B"}}, use_lemma : BOOLEAN, top : {Null}]

StatsStart ==
    /\ pc = "table"
    /\ doc = NoDoc
    /\ tsv = NoFile
    /\ out = NoOut

InitCooc ==
    /\ \E n \in 0 .. MaxRows : \E items \in [1 .. n -> CoocItems] :
          \E split \in (IF n = 0 THEN {0} ELSE 1 .. n) : df = StatTable(items, split)
    /\ args \in CoocArgs
    /\ StatsStart

\* One call of a Stats Engine function on the table: the result or the error.
Call(fn, results) ==
    /\ pc = "table"
    /\ args.fn = fn
    /\ out' \in results
    /\ pc' = "done"
    /\ UNCHANGED <<doc, tsv, df, args>>

Cooc == Call("cooc", CoocResults(df, args))

PosCountsCall == Call("pos_counts", {PosCounts(df)})

LemmaFreqsCall == Call("lemma_freqs", LemmaFreqs(df, args))

NerCountsCall == Call("ner_counts", {NerCounts(df, args)})

DeprelCountsCall == Call("deprel_counts", {DeprelCounts(df)})

TopLemmasByUposCall == Call("top_lemmas_by_upos", TopLemmasByUpos(df, args))

SentenceLengthsCall == Call("sentence_lengths", {SentenceLengths(df)})

DependencyRoleMatrixCall == Call("dependency_role_matrix", {DependencyRoleMatrix(df)})

NextCooc == Cooc

SpecCooc == InitCooc /\ [][NextCooc]_vars

(***************************************************************************)
(* Every Stats Engine function on a table that may lack one column.        *)
(***************************************************************************)
RowPool ==
    {[form |-> "a", upos |-> "NOUN", deprel |-> "nsubj", ner |-> "O"],
     [form |-> "B", upos |-> "VERB", deprel |-> "root", ner |-> "B-PER"],
     [form |-> "c", upos |-> "NOUN", deprel |-> "obj", ner |-> "O"]}

ColsArgs ==
    {[fn |-> "pos_counts"], [fn |-> "deprel_counts"], [fn |-> "sentence_lengths"],
     [fn |-> "dependency_role_matrix"]}
    \cup [fn : {"lemma_freqs"}, top : 1 .. 2]
    \cup [fn : {"ner_counts"}, drop_o : BOOLEAN]
    \cup [fn : {"top_lemmas_by_upos"}, upos : {"NOUN"}, top : 1 .. 2]
    \cup [fn : {"cooc"}, window : {1}, by_sent : BOOLEAN, lowercase : {TRUE},
          exclude : {{}}, use_lemma : BOOLEAN, top : {Null}]

InitCols ==
    /\ \E n \in 0 .. MaxColRows : \E items \in [1 .. n -> RowPool] :
          \E c \in Range(Header) \cup {"-"} : df = DropColumn(StatTable(items, n), c)
    /\ args \in ColsArgs
    /\ StatsStart

NextCols ==
    \/ PosCountsCall
    \/ LemmaFreqsCall
    \/ NerCountsCall
    \/ DeprelCountsCall
    \/ TopLemmasByUposCall
    \/ SentenceLengthsCall
    \/ Cooc
    \/ DependencyRoleMatrixCall

SpecCols == InitCols /\ [][NextCols]_vars

(***************************************************************************)
(* pos_counts on tables of up to MaxPosRows rows.  pos_counts reads only   *)
(* how often each UPOS value occurs, so the tables list the tags in blocks *)
(* of descending length.                                                   *)
(***************************************************************************)
\* The 17 universal POS tags and the placeholder of load_tsv.
UposTags ==
    <<"NOUN", "PUNCT", "VERB", "ADP", "DET", "ADJ", "PROPN", "PRON", "ADV", "AUX",
      "CCONJ", "NUM", "PART", "SCONJ", "SYM", "INTJ", "X", "_">>

\* The descending lists of positive block lengths, none above m, that sum to n.
RECURSIVE Blocks(_, _)
Blocks(n, m) ==
    IF n = 0 THEN {<<>>}
    ELSE UNION {{<<k>> \o b : b \in Blocks(n - k, k)} :
                  k \in 1 .. (IF n < m THEN n ELSE m)}

\* The tag of row i of the table of the blocks b.
RECURSIVE TagIndex(_, _)
TagIndex(b, i) == IF i <= b[1] THEN 1 ELSE 1 + TagIndex(Tail(b), i - b[1])

PosTable(b) ==
    StatTable([i \in 1 .. SumSeq(b) |->
                 [form |-> "a", upos |-> UposTags[TagIndex(b, i)], deprel |-> "root",
                  ner |-> "O"]], SumSeq(b))

InitPos ==
    /\ \E n \in 0 .. MaxPosRows : \E b \in Blocks(n, n) :
          /\ Len(b) <= Len(UposTags)
          /\ df = PosTable(b)
    /\ args = [fn |-> "pos_counts"]
    /\ StatsStart

NextPos == PosCountsCall

SpecPos == InitPos /\ [][NextPos]_vars

(***************************************************************************)
(* dependency_role_matrix on tables of up to MaxRows rows.                 *)
(***************************************************************************)
DepItems ==
    {[form |-> "a", upos |-> u, deprel |-> d, ner |-> "O"] :
     u \in {"ADJ", "NOUN", "VERB"}, d \in {"obj", "nsubj"}}

InitDep ==
    /\ \E n \in 0 .. MaxRows : \E items \in [1 .. n -> DepItems] : df = StatTable(items, n)
    /\ args = [fn |-> "dependency_role_matrix"]
    /\ StatsStart

NextDep == DependencyRoleMatrixCall

SpecDep == InitDep /\ [][NextDep]_vars

(***************************************************************************)
(* build_all_stats on a tabular file that may lack one column.             *)
(***************************************************************************)
\* top_lemmas of build_all_stats
TopLemmasDefault == 50

\* window_cooc of build_all_stats
WindowCoocDefault == 2

\* top of cooccurrences_within_window
CoocTopDefault == 200

\* The parameters build_all_stats passes to cooccurrences_within_window; the
\* others keep their defaults (exclude=None excludes nothing).
BundleCoocArgs ==
    [fn |-> "cooc", window |-> WindowCoocDefault, by_sent |-> TRUE, lowercase |-> TRUE,
     exclude |-> {}, use_lemma |-> TRUE, top |-> Some(CoocTopDefault)]

\* pd.DataFrame(columns=["NER_tag", "count"])
EmptyNer == [kind |-> "ok", rows |-> {}]

\* stats["ner"]: the ValueError of ner_counts is caught   (lines 198-201)
NerOrEmpty(t) ==
    LET r == NerCounts(t, [drop_o |-> TRUE])
    IN  IF r.kind = "ValueError" THEN EmptyNer ELSE r

\* Every outcome of the calls of lines 196-210 on table t: the bundle, or the
\* error of the first call that raises.
BuildAllStatsResults(t) ==
    LET pos == PosCounts(t)
        dep == DeprelCounts(t)
        len == SentenceLengths(t)
        mat == DependencyRoleMatrix(t)
    IN  IF pos.kind # "ok" THEN {pos}
        ELSE UNION {
          IF lem.kind # "ok" THEN {lem}
          ELSE IF dep.kind # "ok" THEN {dep}
          ELSE IF len.kind # "ok" THEN {len}
          ELSE UNION {
            IF co.kind # "ok" THEN {co}
            ELSE IF mat.kind # "ok" THEN {mat}
            ELSE {[kind |-> "ok",
                   stats |-> [pos |-> pos, lemmas |-> lem, ner |-> NerOrEmpty(t),
                              deprel |-> dep, lengths |-> len, cooc |-> co,
                              dep_matrix_pct |-> mat]]} :
            co \in CoocResults(t, BundleCoocArgs)} :
          lem \in LemmaFreqs(t, [top |-> TopLemmasDefault])}

\* The line of the file for one row of the table.
ItemLine(s, t, item) ==
    <<IntToStr(s), IntToStr(t), item.form, LemmaOf[item.form], item.upos, "n", "0",
      item.deprel, item.ner>>

\* The line without its cells at the columns named c.
WithoutColumn(line, c) ==
    LET keep == {j \in DOMAIN Header : Header[j] # c}
        ix   == SortedAsc(keep)
    IN  [k \in DOMAIN ix |-> line[ix[k]]]

\* The file of the items, rows 1..split in sentence 1 and the others in
\* sentence 2, written without column c.
StatFile(items, split, c) ==
    File(<<WithoutColumn(Header, c)>> \o
         [i \in DOMAIN items |->
            WithoutColumn(ItemLine(IF i <= split THEN 1 ELSE 2,
                                   IF i <= split THEN i ELSE i - split, items[i]), c)])

InitBundle ==
    /\ \/ tsv = NoFile
       \/ \E n \in 0 .. MaxColRows : \E items \in [1 .. n -> RowPool] :
             \E split \in (IF n = 0 THEN {0} ELSE 1 .. n) :
                \E c \in Range(Header) \cup {"-"} : tsv = StatFile(items, split, c)
    /\ pc = "tsv"
    /\ doc = NoDoc
    /\ df = NoTable
    /\ args = [fn |-> "build_all_stats"]
    /\ out = NoOut

\* build_all_stats(tsv_path)   (lines 182-211)
BuildAllStats ==
    /\ pc = "tsv"
    /\ args.fn = "build_all_stats"
    /\ IF ~tsv.exists
       THEN /\ out' = [kind |-> "FileNotFoundError"]
            /\ df' = df
       ELSE LET t == LoadTsvTable(tsv.lines)
            IN  IF t.kind # "ok"
                THEN /\ out' = t
                     /\ df' = df
                ELSE /\ out' \in BuildAllStatsResults(t)
                     /\ df' = t
    /\ pc' = "done"
    /\ UNCHANGED <<doc, tsv, args>>

NextBundle == BuildAllStats

SpecBundle == InitBundle /\ [][NextBundle]_vars

(***************************************************************************)
(* validate_processors.  The processors string is kept as the list of its  *)
(* lexemes: a comma, a blank, or a run of other characters.                *)
(***************************************************************************)
Comma == ","

Blank == " "

\* _ALLOWED_PROCESSORS   (lines 123-126)
AllowedProcessors == {"tokenize", "mwt", "pos", "lemma", "depparse", "ner"}

\* The list the priorities are numbered from   (line 151)
PriorityList == <<"tokenize", "mwt", "pos", "lemma", "depparse", "ner">>

\* priority.get(x, 999)
UnknownPriority == 999

\* The priorities with tokenize left out of the list, so that it sorts with
\* the unknown entries.
PriorityWithoutTokenize(x) ==
    IF x \in Range(PriorityList) \ {"tokenize"}
    THEN (CHOOSE i \in DOMAIN PriorityList : PriorityList[i] = x) - 1
    ELSE UnknownPriority

PriorityOf(x) ==
    IF x \in Range(PriorityList)
    THEN (CHOOSE i \in DOMAIN PriorityList : PriorityList[i] = x) - 1
    ELSE UnknownPriority

\* proc_str.split(","): the pieces between the commas, empty ones included.
RECURSIVE SplitCommas(_)
SplitCommas(s) ==
    IF \A i \in DOMAIN s : s[i] # Comma THEN <<s>>
    ELSE LET k == CHOOSE k \in DOMAIN s :
                     s[k] = Comma /\ \A j \in 1 .. k - 1 : s[j] # Comma
         IN  <<SubSeq(s, 1, k - 1)>> \o SplitCommas(SubSeq(s, k + 1, Len(s)))

\* p.strip(): the piece without its leading and trailing blanks.
RECURSIVE Strip(_)
Strip(p) ==
    IF p = <<>> THEN p
    ELSE IF p[1] = Blank THEN Strip(Tail(p))
    ELSE IF p[Len(p)] = Blank THEN Strip(SubSeq(p, 1, Len(p) - 1))
    ELSE p

\* The string of a piece.
RECURSIVE Concat(_)
Concat(p) == IF p = <<>> THEN "" ELSE p[1] \o Concat(Tail(p))

\* parts_raw   (line 138)
PartsRaw(s) ==
    LET pieces   == SplitCommas(s)
        stripped == [i \in DOMAIN pieces |-> Concat(Strip(pieces[i]))]
    IN  SelectSeq(stripped, LAMBDA x : x # "")

\* parts: the entries without repeats, first occurrences kept   (lines 139-144)
RECURSIVE DropRepeats(_)
DropRepeats(parts) ==
    IF parts = <<>> THEN <<>>
    ELSE LET init == DropRepeats(SubSeq(parts, 1, Len(parts) - 1))
             last == parts[Len(parts)]
         IN  IF last \in Range(init) THEN init ELSE Append(init, last)

\* Only the first unknown entry, in place of all of them.
FirstUnknownOnly(parts) ==
    LET u == SelectSeq(parts, LAMBDA x : x \notin AllowedProcessors)
    IN  IF u = <<>> THEN u ELSE <<u[1]>>

\* unknown   (line 146)
UnknownParts(parts) == SelectSeq(parts, LAMBDA x : x \notin AllowedProcessors)

\* The entries left in their order, in place of sorted.
NotSorted(parts) == parts

\* sorted(parts, key=priority): a stable sort, by insertion
RECURSIVE SortedByPriority(_)
SortedByPriority(parts) ==
    IF parts = <<>> THEN <<>>
    ELSE LET init == SortedByPriority(SubSeq(parts, 1, Len(parts) - 1))
             last == parts[Len(parts)]
             k    == Cardinality({i \in DOMAIN init :
                                     PriorityOf(init[i]) <= PriorityOf(last)})
         IN  SubSeq(init, 1, k) \o <<last>> \o SubSeq(init, k + 1, Len(init))

\* ", ".join(xs) and ",".join(xs)
RECURSIVE Join(_, _)
Join(xs, sep) ==
    IF xs = <<>> THEN ""
    ELSE IF Len(xs) = 1 THEN xs[1]
    ELSE xs[1] \o sep \o Join(Tail(xs), sep)

\* A warning: the fixed text and the text put in after it.
Warning(text, arg) == [text |-> text, arg |-> arg]

UnknownText == "Procesadores no reconocidos: "

ReorderText == "Reordenado: 'tokenize' movido al inicio."

\* parts_sorted.remove("tokenize"); parts_sorted.insert(0, "tokenize")
MoveTokenizeFirst(ps) ==
    LET k == CHOOSE k \in DOMAIN ps :
                 ps[k] = "tokenize" /\ \A j \in 1 .. k - 1 : ps[j] # "tokenize"
    IN  <<"tokenize">> \o SubSeq(ps, 1, k - 1) \o SubSeq(ps, k + 1, Len(ps))

\* validate_processors(proc_str)   (lines 128-161)
ValidateProcessors(s) ==
    LET parts   == DropRepeats(PartsRaw(s))
        unknown == UnknownParts(parts)
        w1      == IF unknown # <<>>
                   THEN <<Warning(UnknownText, Join(unknown, ", "))>> ELSE <<>>
        sorted  == SortedByPriority(parts)
        move    == "tokenize" \in Range(sorted) /\ sorted[1] # "tokenize"
        w2      == IF move THEN <<Warning(ReorderText, "")>> ELSE <<>>
        final   == IF move THEN MoveTokenizeFirst(sorted) ELSE sorted
    IN  [kind |-> "ok", normalized |-> Join(final, ","), warnings |-> w1 \o w2]

\* The lexemes of the processors strings.
Lexemes == {Comma, Blank, "tokenize", "pos", "ner", "xx", "yy"}

InitProc ==
    /\ \E n \in 0 .. MaxLexemes : \E s \in [1 .. n -> Lexemes] :
          args = [fn |-> "validate_processors", proc_str |-> s]
    /\ pc = "call"
    /\ doc = NoDoc
    /\ tsv = NoFile
    /\ df = NoTable
    /\ out = NoOut

ValidateProcessorsCall ==
    /\ pc = "call"
    /\ args.fn = "validate_processors"
    /\ out' = ValidateProcessors(args.proc_str)
    /\ pc' = "done"
    /\ UNCHANGED <<doc, tsv, df, args>>

NextProc == ValidateProcessorsCall

SpecProc == InitProc /\ [][NextProc]_vars

(***************************************************************************)
(* load_tsv on files with missing and malformed cells.                     *)
(***************************************************************************)
\* A well-formed line of the file.
GoodLine == <<"1", "1", "a", "a", "NOUN", "n", "0", "root", "O">>

\* The cells tried in place of the cell of a well-formed line: another value,
\* an empty cell, text in a numeric column, a non-integral number.
OtherCells(c) ==
    IF c \in {"sent_ix", "tok_ix", "HEAD"} THEN {"2", "", "x", "1.5"}
    ELSE IF c = "XPOS" THEN {""}
    ELSE {"b", ""}

\* The lines that differ from the well-formed line in at most one cell.
LoadLines ==
    {GoodLine} \cup
    UNION {{[GoodLine EXCEPT ![j] = v] : v \in OtherCells(Header[j])} : j \in DOMAIN Header}

InitLoad ==
    /\ \E n \in 0 .. MaxLoadRows : \E ls \in [1 .. n -> LoadLines] : tsv = File(<<Header>> \o ls)
    /\ pc = "tsv"
    /\ doc = NoDoc
    /\ df = NoTable
    /\ args = NoArgs
    /\ out = NoOut

NextLoad == LoadTsv

SpecLoad == InitLoad /\ [][NextLoad]_vars

(***************************************************************************)
(* doc_to_conllu.  The text written is kept as the list of its atoms: a    *)
(* newline, a tab, a blank, or a run of other characters.                  *)
(***************************************************************************)
Newline == "\n"

Tab == "\t"

Whitespace == {Newline, Tab, Blank}

\* The atoms of a string of the vocabularies (none has a blank inside but the
\* sentence texts that end in one).
Atoms(s) ==
    CASE s = "" -> <<>>
      [] s = " " -> <<Blank>>
      [] s = "t " -> <<"t", Blank>>
      [] OTHER -> <<s>>

\* str(v) of a field that is a string or None
Str(v) == IF v = None THEN "None" ELSE v

\* sep.join(xs) over lists of atoms
RECURSIVE JoinAtoms(_, _)
JoinAtoms(xs, sep) ==
    IF xs = <<>> THEN <<>>
    ELSE IF Len(xs) = 1 THEN xs[1]
    ELSE xs[1] \o <<sep>> \o JoinAtoms(Tail(xs), sep)

\* The text left as joined, in place of stripped.
NoRStrip(s) == s

\* s.rstrip()
RECURSIVE RStrip(_)
RStrip(s) ==
    IF s # <<>> /\ s[Len(s)] \in Whitespace THEN RStrip(SubSeq(s, 1, Len(s) - 1)) ELSE s

\* One Word for each Token, in place of all its Words.
FirstWords(sent) == [i \in DOMAIN sent.tokens |-> sent.tokens[i].words[1]]

\* sent.words: the Words of the Tokens of the Sentence, in order.
SentWords(sent) == Flatten([i \in DOMAIN sent.tokens |-> sent.tokens[i].words])

\* The line of one Word   (lines 27-36)
ConlluWordLine(w) ==
    LET feats == OrDefault(w.feats, "_")
        xpos  == OrDefault(w.xpos, "_")
        head  == IF w.head # Null THEN Val(w.head) ELSE 0
    IN  JoinAtoms(<<Atoms(IntToStr(w.id)), Atoms(Str(w.text)), Atoms(Str(w.lemma)),
                    Atoms(Str(w.upos)), Atoms(xpos), Atoms(feats), Atoms(IntToStr(head)),
                    Atoms(Str(w.deprel)), Atoms("_"), Atoms("_")>>, Tab)

\* The lines of the Sentence numbered sent_id   (lines 24-37)
ConlluSentLines(sent, sent_id) ==
    <<<<"# sent_id =", Blank, IntToStr(sent_id)>>,
      <<"# text =", Blank>> \o Atoms(sent.text)>>
        \o [i \in DOMAIN SentWords(sent) |-> ConlluWordLine(SentWords(sent)[i])]
        \o <<<<>>>>

\* doc_to_conllu(doc)   (lines 20-38)
DocToConlluText(d) ==
    LET lines == Flatten([k \in DOMAIN d |-> ConlluSentLines(d[k], k)])
    IN  RStrip(JoinAtoms(lines, Newline)) \o <<Newline>>

\* The texts of the Sentences.
SentTexts == {"t", "t ", ""}

\* Documents of Sentences of lens[s] Tokens and text texts[s].
TextShapeDoc(lens, texts) ==
    [s \in DOMAIN lens |->
        [text |-> texts[s], tokens |-> PlainTokens(s, lens[s]), ents |-> <<>>]]

InitConllu ==
    /\ \/ \E k \in 0 .. MaxSents : \E lens \in [1 .. k -> 0 .. MaxToks] :
             \E inner, last \in SentTexts :
                doc = TextShapeDoc(lens, [s \in 1 .. k |-> IF s = k THEN last ELSE inner])
       \/ \E w \in Words : doc = WordDoc(w)
       \/ \E k \in 1 .. MaxToks : \E ts \in [1 .. k -> TextTokens] :
             doc = TextDoc(ts)
    /\ pc = "doc"
    /\ tsv = NoFile
    /\ df = NoTable
    /\ args = NoArgs
    /\ out = NoOut

\* main: write_text(doc_to_conllu(doc))   (lines 145-146)
DocToConllu ==
    /\ pc = "doc"
    /\ out' = [kind |-> "conllu", text |-> DocToConlluText(doc)]
    /\ pc' = "conllu"
    /\ UNCHANGED <<doc, tsv, df, args>>

NextConllu == DocToConllu \/ DocToTsv

SpecConllu == InitConllu /\ [][NextConllu]_vars

(***************************************************************************)
(* lemma_freqs on tables of up to MaxRows rows.                            *)
(***************************************************************************)
InitLemma ==
    /\ \E n \in 0 .. MaxRows : \E items \in [1 .. n -> CoocItems] : df = StatTable(items, n)
    /\ \E top \in 0 .. MaxTop : args = [fn |-> "lemma_freqs", top |-> top]
    /\ StatsStart

NextLemma == LemmaFreqsCall

SpecLemma == InitLemma /\ [][NextLemma]_vars

(***************************************************************************)
(* sentence_lengths on a table whose sent_ix cells may be null.            *)
(***************************************************************************)
\* The tables load_tsv returns: sent_ix is Int64, null where the cell did not
\* parse (stats.py lines 49-50).
InitLengths ==
    /\ \E n \in 0 .. MaxRows : \E sx \in [1 .. n -> {Null, Some(1), Some(2)}] :
          df = Table([i \in 1 .. n |->
                        TableRow(sx[i], Some(i), "a", "a", "NOUN", "root", "O")])
    /\ args = [fn |-> "sentence_lengths"]
    /\ StatsStart

NextLengths == SentenceLengthsCall

SpecLengths == InitLengths /\ [][NextLengths]_vars

(***************************************************************************)
(* A session of calls of the Stats Engine functions on one table.  out is  *)
(* the log of the session: the number of calls made and, for each call,    *)
(* the function, its parameters and what it returned.                      *)
(***************************************************************************)
\* The table after cooccurrences_within_window(t, a): x is a copy of three
\* columns (line 127) and lines 128-133 assign to x, never to df.  With the
\* assignments made to the table itself:
CoocTableInPlace(t, a) ==
    LET col == IF a.use_lemma THEN "LEMMA" ELSE "FORM"
    IN  [t EXCEPT !.rows = [i \in DOMAIN t.rows |->
                              [t.rows[i] EXCEPT ![col] =
                                  IF a.lowercase THEN Lower(t.rows[i][col])
                                  ELSE t.rows[i][col]]]]

CoocTableAfter(t, a) == t

\* The parameters of the calls of the session.
SessionArgs ==
    [lemma_freqs |-> [top |-> 1],
     top_lemmas_by_upos |-> [upos |-> "NOUN", top |-> 1],
     cooc |-> [window |-> 1, by_sent |-> TRUE, lowercase |-> TRUE, exclude |-> {},
               use_lemma |-> FALSE, top |-> Some(1)]]

\* A sort that is not stable is still a function of its input: what the three
\* functions that sort by count return for the table is fixed for the session
\* (args.sorted), whichever of the orders it is.
InitSession ==
    /\ \E n \in 0 .. MaxColRows : \E items \in [1 .. n -> RowPool] :
          \E split \in (IF n = 0 THEN {0} ELSE 1 .. n) : df = StatTable(items, split)
    /\ \E l \in LemmaFreqs(df, SessionArgs.lemma_freqs),
          u \in TopLemmasByUpos(df, SessionArgs.top_lemmas_by_upos),
          c \in CoocResults(df, SessionArgs.cooc) :
          args = [fn |-> "session", given |-> df,
                  sorted |-> [lemma_freqs |-> l, top_lemmas_by_upos |-> u, cooc |-> c]]
    /\ pc = "table"
    /\ doc = NoDoc
    /\ tsv = NoFile
    /\ out = [kind |-> "log", n |-> 0, seen |-> {}]

\* One more call of fn(df, a) in the session: it returns result and leaves
\* the table as after.
SessionCall(fn, a, results, after) ==
    /\ pc = "table"
    /\ args.fn = "session"
    /\ out.n < MaxCalls
    /\ \E r \in results :
          out' = [kind |-> "log", n |-> out.n + 1,
                  seen |-> out.seen \cup {[fn |-> fn, args |-> a, result |-> r]}]
    /\ df' = after
    /\ UNCHANGED <<pc, doc, tsv, args>>

\* The result of a function that sorts by count: the one of the session.
Sorted(fn, results) == IF df = args.given THEN {args.sorted[fn]} \cap results ELSE results

NextSession ==
    \/ SessionCall("pos_counts", <<>>, {PosCounts(df)}, df)
    \/ SessionCall("lemma_freqs", SessionArgs.lemma_freqs,
                   Sorted("lemma_freqs", LemmaFreqs(df, SessionArgs.lemma_freqs)), df)
    \/ \E d \in BOOLEAN :
          SessionCall("ner_counts", [drop_o |-> d], {NerCounts(df, [drop_o |-> d])}, df)
    \/ SessionCall("deprel_counts", <<>>, {DeprelCounts(df)}, df)
    \/ SessionCall("top_lemmas_by_upos", SessionArgs.top_lemmas_by_upos,
                   Sorted("top_lemmas_by_upos",
                          TopLemmasByUpos(df, SessionArgs.top_lemmas_by_upos)), df)
    \/ SessionCall("sentence_lengths", <<>>, {SentenceLengths(df)}, df)
    \/ SessionCall("cooc", SessionArgs.cooc,
                   Sorted("cooc", CoocResults(df, SessionArgs.cooc)),
                   CoocTableAfter(df, SessionArgs.cooc))
    \/ SessionCall("dependency_role_matrix", <<>>, {DependencyRoleMatrix(df)}, df)

SpecSession == InitSession /\ [][NextSession]_vars

(***************************************************************************)
(* launch_gui: the GUI thread and the worker threads of run_in_thread.     *)
(* pc[w] is the position of worker w, in the order the workers were        *)
(* started; out holds the state of the buttons, the log queue and the      *)
(* lines of the log console.                                               *)
(***************************************************************************)
\* all_buttons   (main.py line 401)
NumButtons == 7

AllButtons == 1 .. NumButtons

\* The ways the target of a worker ends   (lines 184-189)
Outcomes == {"return", "SystemExit", "Exception"}

InitGui ==
    /\ pc = <<>>
    /\ out = [kind |-> "gui", buttons |-> [b \in AllButtons |-> "normal"],
              log_queue |-> <<>>, txt_log |-> <<>>]
    /\ args = [fn |-> "launch_gui"]
    /\ doc = NoDoc
    /\ tsv = NoFile
    /\ df = NoTable

\* A click on button b, on the GUI thread: the command of the button calls
\* run_in_thread, which disables every button and starts the worker
\* (lines 181-192).  A disabled button takes no click.
Click(b) ==
    /\ Len(pc) < MaxWorkers
    /\ out.buttons[b] = "normal"
    /\ out' = [out EXCEPT !.buttons = [c \in AllButtons |-> "disabled"]]
    /\ pc' = Append(pc, [at |-> "target", outcome |-> "none", k |-> 0])
    /\ UNCHANGED <<doc, tsv, df, args>>

\* The target of worker w ends; a SystemExit or another Exception is put on
\* the log queue by gui_log (lines 184-189).  The worker goes on to the
\* finally clause.
TargetEnds(w, outcome) ==
    /\ w \in DOMAIN pc
    /\ pc[w].at = "target"
    /\ out' = [out EXCEPT !.log_queue =
                  IF outcome = "return" THEN @
                  ELSE Append(@, [worker |-> w, kind |-> outcome])]
    /\ pc' = [pc EXCEPT ![w] = [at |-> "enable", outcome |-> outcome, k |-> 1]]
    /\ UNCHANGED <<doc, tsv, df, args>>

\* btn_enable_all left after its first turn.
EnableFirstOnly(w) ==
    /\ w \in DOMAIN pc
    /\ pc[w].at = "enable"
    /\ out' = [out EXCEPT !.buttons[pc[w].k] = "normal"]
    /\ pc' = [pc EXCEPT ![w] = [@ EXCEPT !.at = "done", !.k = 0]]
    /\ UNCHANGED <<doc, tsv, df, args>>

\* One turn of the loop of btn_enable_all in worker w (lines 276-278): the
\* next button is set to normal.
EnableNext(w) ==
    /\ w \in DOMAIN pc
    /\ pc[w].at = "enable"
    /\ out' = [out EXCEPT !.buttons[pc[w].k] = "normal"]
    /\ pc' = [pc EXCEPT ![w] = IF pc[w].k = NumButtons
                               THEN [@ EXCEPT !.at = "done", !.k = 0]
                               ELSE [@ EXCEPT !.k = @ + 1]]
    /\ UNCHANGED <<doc, tsv, df, args>>

\* drain_log on the GUI thread (lines 135-145): every message of the queue is
\* inserted in the console.
DrainLog ==
    /\ args.fn = "launch_gui"
    /\ out.log_queue # <<>>
    /\ out' = [out EXCEPT !.log_queue = <<>>, !.txt_log = @ \o out.log_queue]
    /\ UNCHANGED <<pc, doc, tsv, df, args>>

\* A step of a worker thread.
WorkerStep ==
    \E w \in 1 .. MaxWorkers :
        \/ TargetEnds(w, "return")
        \/ TargetEnds(w, "SystemExit")
        \/ TargetEnds(w, "Exception")
        \/ EnableNext(w)

NextGui ==
    \/ \E b \in AllButtons : Click(b)
    \/ WorkerStep
    \/ DrainLog

SpecGui == InitGui /\ [][NextGui]_vars

\* The worker threads are scheduled and their targets end; nothing makes the
\* user click.
SpecGuiFair == SpecGui /\ WF_vars(WorkerStep) /\ WF_vars(DrainLog)

(***************************************************************************)
(* Claims about doc_to_tsv and load_tsv, checked under SpecTsv.            *)
(***************************************************************************)
Written == tsv.exists

DataRows == Tail(tsv.lines)

TokenCount == SumSeq([s \in DOMAIN doc |-> Len(doc[s].tokens)])

\* The data rows of Sentence s, in the order of the text.
RowsOfSent(s) == SelectSeq(DataRows, LAMBDA r : r[1] = IntToStr(s))

RowsCountTokens == Len(DataRows) = TokenCount

TokIxDense ==
    \A s \in DOMAIN doc :
        LET rs == RowsOfSent(s)
        IN  /\ Len(rs) = Len(doc[s].tokens)
            /\ \A t \in DOMAIN rs : rs[t][2] = IntToStr(t)

SentIxAscending ==
    \A i, j \in DOMAIN DataRows :
        i < j => \E s1, s2 \in DOMAIN doc :
                    /\ s1 <= s2
                    /\ DataRows[i][1] = IntToStr(s1)
                    /\ DataRows[j][1] = IntToStr(s2)

SentIxSeen == {r[1] : r \in Range(DataRows)}

\* C1 as stated: the rows count the Tokens, the sent_ix values that appear are
\* exactly 1..len(sentences), in order, and tok_ix runs 1..len(tokens) in
\* every Sentence.
C1_AllSentIxAppear ==
    Written =>
        /\ RowsCountTokens
        /\ TokIxDense
        /\ SentIxAscending
        /\ SentIxSeen = {IntToStr(s) : s \in DOMAIN doc}

\* C1 (amended): the rows count the Tokens, the sent_ix values that appear are
\* exactly the 1-based indices of the Sentences that own at least one Token,
\* in ascending order, and within each Sentence tok_ix runs 1..len(tokens)
\* ascending with no gap and no repeat.
C1_RowsAndIndices ==
    Written =>
        /\ RowsCountTokens
        /\ TokIxDense
        /\ SentIxAscending
        /\ SentIxSeen = {IntToStr(s) : s \in {s \in DOMAIN doc : doc[s].tokens # <<>>}}

C1_Witness ==
    /\ Written
    /\ Len(doc) = 3
    /\ Len(doc[1].tokens) = 2
    /\ doc[2].tokens = <<>>
    /\ Len(doc[3].tokens) = 3

\* The positions of sent.tokens that Entity e covers.
Covered(e, sent) ==
    {i \in DOMAIN sent.tokens : \E k \in DOMAIN e.tokens : e.tokens[k] = sent.tokens[i].oid}

NonOverlapping(sent) ==
    \A a, b \in DOMAIN sent.ents :
        a # b => Covered(sent.ents[a], sent) \cap Covered(sent.ents[b], sent) = {}

Contiguous(P) == P # {} /\ \A i, j \in P : \A m \in i .. j : m \in P

\* The NER label written for Token t of Sentence s.
NerOf(s, t) == RowsOfSent(s)[t][9]

\* C2: one label per Token in Token order; in a Sentence whose Entities do not
\* overlap, an Entity covering a contiguous run gets B-<type> on the first
\* covered Token and I-<type> on the others, and a Token that no Entity covers
\* gets O.
C2_BioAlignment ==
    Written =>
        \A s \in DOMAIN doc :
            LET sent == doc[s]
            IN  /\ Len(RowsOfSent(s)) = Len(sent.tokens)
                /\ NonOverlapping(sent) =>
                     /\ \A k \in DOMAIN sent.ents :
                          LET P == Covered(sent.ents[k], sent)
                          IN  Contiguous(P) =>
                                \A i \in P :
                                    NerOf(s, i) =
                                        IF \A j \in P : i <= j
                                        THEN "B-" \o sent.ents[k].type
                                        ELSE "I-" \o sent.ents[k].type
                     /\ \A i \in DOMAIN sent.tokens :
                          (\A k \in DOMAIN sent.ents : i \notin Covered(sent.ents[k], sent))
                              => NerOf(s, i) = "O"

C2_Witness ==
    /\ Written
    /\ Len(doc) = 1
    /\ Len(doc[1].tokens) = 3
    /\ Len(doc[1].ents) = 1
    /\ Covered(doc[1].ents[1], doc[1]) = {2, 3}
    /\ NerOf(1, 1) = "O"
    /\ NerOf(1, 2) = "B-" \o doc[1].ents[1].type
    /\ NerOf(1, 3) = "I-" \o doc[1].ents[1].type

StrColumns == {"FORM", "LEMMA", "UPOS", "XPOS", "DEPREL", "NER"}

\* C3: every row of the loaded table holds the FORM, LEMMA, UPOS, XPOS, HEAD,
\* DEPREL and NER values of the row of the text it was loaded from.
C3_RoundTrip ==
    pc = "loaded" =>
        /\ Len(df.rows) = Len(DataRows)
        /\ \A i \in DOMAIN df.rows :
              /\ \A c \in StrColumns : df.rows[i][c] = DataRows[i][ColIx(Header, c)]
              /\ IntToStr(df.rows[i]["HEAD"]) = DataRows[i][ColIx(Header, "HEAD")]

(***************************************************************************)
(* Claims about cooccurrences_within_window, checked under SpecCooc.       *)
(***************************************************************************)
Returned == pc = "done" /\ out.kind = "ok"

\* The token lists of the groups when the table is counted by sentence.
SentTokens ==
    LET gs == CoocGroups(CoocRows(df, args), TRUE)
    IN  [g \in DOMAIN gs |-> [i \in DOMAIN gs[g] |-> gs[g][i].tok]]

\* The token list of the whole table in the order of (sent_ix, tok_ix).
GlobalTokens == Flatten(SentTokens)

SamePair(a, b, l, r) == (a = l /\ b = r) \/ (a = r /\ b = l)

\* The pairs of positions i < j at most `window` apart whose tokens are l and r.
PositionPairs(tokens, l, r) ==
    {p \in (DOMAIN tokens) \X (DOMAIN tokens) :
        /\ p[1] < p[2]
        /\ p[2] - p[1] <= args.window
        /\ SamePair(tokens[p[1]], tokens[p[2]], l, r)}

PairsOfSents(l, r) ==
    SumSeq([g \in DOMAIN SentTokens |-> Cardinality(PositionPairs(SentTokens[g], l, r))])

\* C4 as stated: counted by sentence and not truncated, each pair of positions
\* at most `window` apart adds 1 to the count of its unordered pair, and no
\* other pair is counted (so [a, b, c] with window 1 gives (a,b):1, (b,c):1).
C4_OnePerPositionPair ==
    (Returned /\ args.by_sent /\ args.top = Null) =>
        /\ \A r \in Range(out.rows) : r.count = PairsOfSents(r.left, r.right)
        /\ \A g \in DOMAIN SentTokens : \A i, j \in DOMAIN SentTokens[g] :
              (i < j /\ j - i <= args.window) =>
                  \E r \in Range(out.rows) :
                      SamePair(SentTokens[g][i], SentTokens[g][j], r.left, r.right)

\* C5: in every output row left <= right in str order, no two rows hold the
\* same unordered pair, and a row counts the occurrences met as (left, right)
\* and those met as (right, left) together: 2 for each pair of positions
\* i < j at most `window` apart that holds the pair.
C5_SortedMergedPairs ==
    Returned =>
        /\ \A r \in Range(out.rows) : StrLeq(r.left, r.right)
        /\ \A i, j \in DOMAIN out.rows :
              i # j => ~SamePair(out.rows[i].left, out.rows[i].right,
                                 out.rows[j].left, out.rows[j].right)
        /\ (args.by_sent /\ args.top = Null) =>
              \A r \in Range(out.rows) : r.count = 2 * PairsOfSents(r.left, r.right)

C5_Witness ==
    /\ Returned
    /\ SentTokens = << <<"b", "a", "b">> >>
    /\ args.window = 1
    /\ out.rows = <<[left |-> "a", right |-> "b", count |-> 4]>>

\* C6: with by_sent false the pairs counted are those of tokens at most
\* `window` apart in the one sequence ordered by (sent_ix, tok_ix).
C6_GlobalSequence ==
    (Returned /\ ~args.by_sent /\ args.top = Null) =>
        {<<r.left, r.right>> : r \in Range(out.rows)}
            = {SortedPair(GlobalTokens[p[1]], GlobalTokens[p[2]]) :
                 p \in {p \in (DOMAIN GlobalTokens) \X (DOMAIN GlobalTokens) :
                          p[1] < p[2] /\ p[2] - p[1] <= args.window}}

\* C7: the rows descend in count, and with any top given, 0 included, the
\* output is at most top rows long.
C7_SortedAndTruncated ==
    Returned =>
        /\ \A i, j \in DOMAIN out.rows : i < j => out.rows[i].count >= out.rows[j].count
        /\ args.top # Null => Len(out.rows) <= Val(args.top)

(***************************************************************************)
(* Claims about the missing-column errors, checked under SpecCols.         *)
(***************************************************************************)
\* The columns the called function reads.
ReadColumns ==
    CASE args.fn = "pos_counts" -> {"UPOS"}
      [] args.fn = "lemma_freqs" -> {"LEMMA"}
      [] args.fn = "ner_counts" -> {"NER"}
      [] args.fn = "deprel_counts" -> {"DEPREL"}
      [] args.fn = "top_lemmas_by_upos" -> {"UPOS", "LEMMA"}
      [] args.fn = "sentence_lengths" -> {"sent_ix", "FORM"}
      [] args.fn = "cooc" ->
            {"sent_ix", "tok_ix", IF args.use_lemma THEN "LEMMA" ELSE "FORM"}
      [] args.fn = "dependency_role_matrix" -> {"DEPREL", "UPOS"}

MissingColumns == {c \in ReadColumns : ~HasCol(df, c)}

\* C8: every Stats Engine function called on a table that lacks a column the
\* function reads fails with the missing-column error (ValueError) that names
\* the absent column, and with no other kind of error.
C8_MissingColumnError ==
    (pc = "done" /\ MissingColumns # {}) =>
        /\ out.kind = "ValueError"
        /\ MissingColumns \subseteq out.names

(***************************************************************************)
(* Claims about pos_counts, checked under SpecPos.                         *)
(***************************************************************************)
Abs(x) == IF x < 0 THEN -x ELSE x

Occurrences(c, v) == Cardinality({i \in DOMAIN df.rows : df.rows[i][c] = v})

PosCounted == pc = "done" /\ args.fn = "pos_counts" /\ Len(df.rows) > 0

\* One row for each distinct UPOS value, with its number of occurrences and
\* the hundredths nearest to count / total * 100.
PosRowsCorrect ==
    /\ out.kind = "ok"
    /\ {r.UPOS : r \in out.rows} = Range(Column(df, "UPOS"))
    /\ Cardinality(out.rows) = Cardinality(Range(Column(df, "UPOS")))
    /\ \A r \in out.rows :
          /\ r.count = Occurrences("UPOS", r.UPOS)
          /\ 2 * Abs(r.percent * Len(df.rows) - r.count * 10000) <= Len(df.rows)

\* The sum of the percent column, in hundredths.
PercentSum == SumFn([r \in out.rows |-> r.percent], out.rows)

\* C9 as stated: pos_counts on a non-empty table gives each distinct UPOS value
\* one row with its count and its percent rounded to 2 decimals, and the percent
\* column sums to 100.00 within 0.05 whatever the number of distinct values.
C9_PercentSumWithinTolerance ==
    PosCounted =>
        /\ PosRowsCorrect
        /\ Abs(PercentSum - 10000) <= 5

\* C9 amended: the rows are as stated, and the percent column sums to 100.00
\* within 0.005 for each distinct UPOS value, hence within 0.05 when there are
\* at most 10 distinct values.
C9_PercentSumWithinHalfCentEach ==
    PosCounted =>
        /\ PosRowsCorrect
        /\ 2 * Abs(PercentSum - 10000) <= Cardinality(out.rows)
        /\ Cardinality(out.rows) <= 10 => Abs(PercentSum - 10000) <= 5

\* 18 rows, 14 distinct values: one of 5 occurrences (27.78) and 13 of one (5.56).
C9_Witness ==
    /\ PosCounted
    /\ out.kind = "ok"
    /\ Len(df.rows) = 18
    /\ Cardinality(out.rows) = 14
    /\ [UPOS |-> "NOUN", count |-> 5, percent |-> 2778] \in out.rows
    /\ PercentSum = 10006

(***************************************************************************)
(* Claims about dependency_role_matrix, checked under SpecDep.             *)
(***************************************************************************)
MatrixBuilt == pc = "done" /\ args.fn = "dependency_role_matrix"

PairOccurrences(d, u) ==
    Cardinality({i \in DOMAIN df.rows : df.rows[i]["DEPREL"] = d /\ df.rows[i]["UPOS"] = u})

\* C10: the rows of dependency_role_matrix are the distinct DEPREL values in
\* ascending order; each cell is the count of its (DEPREL, UPOS) pair over the
\* DEPREL row total, times 100, rounded to 2 decimals; the cells of a row sum
\* to 100.00 within rounding error; no cell is undefined (every row listed has
\* a total of at least one).
C10_RowPercentages ==
    MatrixBuilt =>
        /\ out.kind = "ok"
        /\ Range(out.index) = Range(Column(df, "DEPREL"))
        /\ \A i, j \in DOMAIN out.index :
              i < j => StrLeq(out.index[i], out.index[j]) /\ out.index[i] # out.index[j]
        /\ Range(out.columns) = Range(Column(df, "UPOS"))
        /\ \A d \in Range(out.index) :
              LET total == Occurrences("DEPREL", d)
                  cells == out.cells[d]
              IN  /\ total >= 1
                  /\ \A u \in Range(out.columns) :
                        /\ cells[u] # Null
                        /\ 2 * Abs(Val(cells[u]) * total - PairOccurrences(d, u) * 10000)
                              <= total
                  /\ 2 * Abs(SumFn([u \in Range(out.columns) |-> Val(cells[u])],
                                   Range(out.columns)) - 10000) <= Len(out.columns)

\* Two DEPREL values; the nsubj row is three thirds (33.33 each, sum 99.99).
C10_Witness ==
    /\ MatrixBuilt
    /\ out.kind = "ok"
    /\ out.index = <<"nsubj", "obj">>
    /\ out.columns = <<"ADJ", "NOUN", "VERB">>
    /\ \A u \in Range(out.columns) : out.cells["nsubj"][u] = Some(3333)
    /\ out.cells["obj"] = [u \in Range(out.columns) |->
                             IF u = "NOUN" THEN Some(10000) ELSE Some(0)]

(***************************************************************************)
(* Claims about build_all_stats, checked under SpecBundle.                 *)
(***************************************************************************)
BundleKeys == {"pos", "lemmas", "ner", "deprel", "lengths", "cooc", "dep_matrix_pct"}

\* The header of the file read.
FileCols == IF tsv.exists THEN Range(tsv.lines[1]) ELSE {}

\* The columns the functions other than ner_counts read.
NeededElsewhere == {"UPOS", "LEMMA", "DEPREL", "sent_ix", "tok_ix", "FORM"}

BundleDone == pc = "done" /\ args.fn = "build_all_stats" /\ tsv.exists

\* C11: build_all_stats returns a mapping with exactly the keys pos, lemmas,
\* ner, deprel, lengths, cooc, dep_matrix_pct; when the table has no NER column
\* the ner entry is the empty table and the other six entries are what their
\* functions compute; a missing column that another function needs makes
\* build_all_stats fail with an error and return no bundle.
C11_BundleOrError ==
    BundleDone =>
        /\ NeededElsewhere \subseteq FileCols =>
              /\ out.kind = "ok"
              /\ DOMAIN out.stats = BundleKeys
              /\ "NER" \notin FileCols =>
                    /\ out.stats.ner = EmptyNer
                    /\ out.stats.pos = PosCounts(df)
                    /\ out.stats.lemmas \in LemmaFreqs(df, [top |-> TopLemmasDefault])
                    /\ out.stats.deprel = DeprelCounts(df)
                    /\ out.stats.lengths = SentenceLengths(df)
                    /\ out.stats.cooc \in CoocResults(df, BundleCoocArgs)
                    /\ out.stats.dep_matrix_pct = DependencyRoleMatrix(df)
        /\ ~(NeededElsewhere \subseteq FileCols) => out.kind \in {"ValueError", "KeyError"}

(***************************************************************************)
(* Claims about validate_processors, checked under SpecProc.               *)
(***************************************************************************)
ProcDone == pc = "done" /\ args.fn = "validate_processors"

\* The trimmed, non-empty entries of the input, repeats included.
InputEntries == PartsRaw(args.proc_str)

\* The entries at their first occurrence, in the order of the input.
FirstSeen ==
    LET xs == InputEntries
        ix == SortedAsc({i \in DOMAIN xs : \A j \in 1 .. i - 1 : xs[j] # xs[i]})
    IN  [k \in DOMAIN ix |-> xs[ix[k]]]

IsKnown(x) == x \in {"tokenize", "mwt", "pos", "lemma", "depparse", "ner"}

\* The known entries in the fixed order, then the unknown ones as first seen.
ExpectedNormal ==
    SelectSeq(<<"tokenize", "mwt", "pos", "lemma", "depparse", "ner">>,
              LAMBDA x : x \in Range(FirstSeen))
        \o SelectSeq(FirstSeen, LAMBDA x : ~IsKnown(x))

ReorderWarned == \E i \in DOMAIN out.warnings : out.warnings[i].text = ReorderText

\* C12: validate_processors("ner,tokenize,pos") returns "tokenize,pos,ner" with
\* a warning that notes the reorder, and whenever tokenize is among the entries
\* but is not the first of them, a reorder warning is returned.
C12_ReorderWarning ==
    ProcDone =>
        /\ args.proc_str = <<"ner", ",", "tokenize", ",", "pos">> =>
              /\ out.normalized = "tokenize,pos,ner"
              /\ out.warnings # <<>>
              /\ ReorderWarned
        /\ ("tokenize" \in Range(FirstSeen) /\ FirstSeen[1] # "tokenize") => ReorderWarned

\* C13: the normalized output is the comma-join of the input's entries, trimmed,
\* without empty entries and repeats, the known ones in the order tokenize, mwt,
\* pos, lemma, depparse, ner and the unknown ones after them as first seen.
C13_NormalizedOrder ==
    ProcDone =>
        /\ out.kind = "ok"
        /\ out.normalized = Join(ExpectedNormal, ",")

\* A repeat dropped and tokenize moved before the unknown entry.
C13_Witness ==
    /\ ProcDone
    /\ args.proc_str = <<"yy", ",", "tokenize", ",", "yy">>
    /\ out.normalized = "tokenize,yy"

\* The warnings about unknown processors.
UnknownWarnings == {i \in DOMAIN out.warnings : out.warnings[i].text = UnknownText}

\* C14: with an entry outside the known set there is exactly one
\* unknown-processor warning, listing every unknown entry once, joined in
\* first-seen order; with known entries only there is none; the unknown entries
\* stay in the normalized output.
C14_UnknownWarning ==
    ProcDone =>
        LET unknown == SelectSeq(FirstSeen, LAMBDA x : ~IsKnown(x))
        IN  /\ unknown # <<>> =>
                  /\ Cardinality(UnknownWarnings) = 1
                  /\ \A i \in UnknownWarnings : out.warnings[i].arg = Join(unknown, ", ")
            /\ unknown = <<>> => UnknownWarnings = {}
            /\ \E known \in SUBSET Range(PriorityList) :
                  out.normalized =
                      Join(SelectSeq(PriorityList, LAMBDA x : x \in known) \o unknown, ",")

C14_Witness ==
    /\ ProcDone
    /\ args.proc_str = <<"yy", ",", "xx", ",", "yy">>
    /\ out.warnings = <<Warning(UnknownText, "yy, xx")>>
    /\ out.normalized = "yy,xx"

(***************************************************************************)
(* Claims about load_tsv on malformed cells, checked under SpecLoad.       *)
(***************************************************************************)
\* The cell of the file at data row i, column c.
FileCell(i, c) == tsv.lines[i + 1][ColIx(tsv.lines[1], c)]

IsIntegerText(x) == \E n \in 0 .. 12 : x = IntToStr(n)

IntegerOf(x) == CHOOSE n \in 0 .. 12 : x = IntToStr(n)

\* The cell the table must hold for the cell x of column c of the file.
ExpectedCell(c, x) ==
    IF c \in {"UPOS", "LEMMA", "DEPREL", "FORM"} THEN (IF x = "" THEN "_" ELSE x)
    ELSE IF c = "NER" THEN (IF x = "" THEN "O" ELSE x)
    ELSE IF c \in {"sent_ix", "tok_ix"}
         THEN (IF IsIntegerText(x) THEN Some(IntegerOf(x)) ELSE Null)
    ELSE IF IsIntegerText(x) THEN IntegerOf(x) ELSE 0

LoadTried == pc \in {"loaded", "failed"} /\ args = NoArgs /\ tsv.exists

\* C15: load_tsv on an existing file never fails because of a missing or
\* malformed cell: a missing UPOS, LEMMA, DEPREL or FORM cell becomes "_", a
\* missing NER cell "O", a sent_ix or tok_ix cell that is not an integer becomes
\* null, a HEAD cell that is not an integer becomes 0, and the other cells keep
\* their values.
C15_MalformedCellsAbsorbed ==
    LoadTried =>
        /\ pc = "loaded"
        /\ Len(df.rows) = Len(tsv.lines) - 1
        /\ \A i \in DOMAIN df.rows : \A c \in Range(Header) \ {"XPOS"} :
              df.rows[i][c] = ExpectedCell(c, FileCell(i, c))

(***************************************************************************)
(* Claims about doc_to_conllu, checked under SpecConllu.                   *)
(***************************************************************************)
ConlluWritten == pc = "conllu" /\ out.kind = "conllu"

\* The pieces of s between the separators sep, empty ones included.
RECURSIVE SplitAt(_, _)
SplitAt(s, sep) ==
    IF \A i \in DOMAIN s : s[i] # sep THEN <<s>>
    ELSE LET k == CHOOSE k \in DOMAIN s : s[k] = sep /\ \A j \in 1 .. k - 1 : s[j] # sep
         IN  <<SubSeq(s, 1, k - 1)>> \o SplitAt(SubSeq(s, k + 1, Len(s)), sep)

\* The lines of the text written, each ended by a newline.
DocLines ==
    LET ls == SplitAt(out.text, Newline)
    IN  SubSeq(ls, 1, Len(ls) - 1)

\* The Words of the tokens, Token after Token.
RECURSIVE AllWords(_)
AllWords(tokens) ==
    IF tokens = <<>> THEN <<>> ELSE tokens[1].words \o AllWords(Tail(tokens))

WordsOf(k) == AllWords(doc[k].tokens)

\* The number of the first line of the k-th Sentence: every Sentence before
\* it takes two comment lines, its word lines and a blank line.
RECURSIVE BlockStart(_)
BlockStart(k) == IF k = 1 THEN 1 ELSE BlockStart(k - 1) + Len(WordsOf(k - 1)) + 3

IsAbsent(x) == x = None \/ x = ""

\* The line has the ten fields of the Word w: ID, FORM, FEATS, HEAD, DEPS and
\* MISC are looked at here.
WordLineOk(line, w) ==
    LET f == SplitAt(line, Tab)
    IN  /\ Len(f) = 10
        /\ f[1] = <<IntToStr(w.id)>>
        /\ f[2] = <<w.text>>
        /\ f[6] = (IF IsAbsent(w.feats) THEN <<"_">> ELSE <<w.feats>>)
        /\ f[7] = <<IntToStr(IF w.head = Null THEN 0 ELSE Val(w.head))>>
        /\ f[9] = <<"_">>
        /\ f[10] = <<"_">>

IsCommentLine(l) == l # <<>> /\ l[1] \in {"# sent_id =", "# text ="}

WordLineCount == Cardinality({i \in DOMAIN DocLines : DocLines[i] # <<>> /\ ~IsCommentLine(DocLines[i])})

RECURSIVE WordCount(_)
WordCount(k) == IF k = 0 THEN 0 ELSE WordCount(k - 1) + Len(WordsOf(k))

TextLine(k) == <<"# text =", Blank>> \o Atoms(doc[k].text)

\* got is full without its trailing whitespace.
IsTrimmed(full, got) ==
    \E n \in 0 .. Len(full) :
        /\ got = SubSeq(full, 1, n)
        /\ \A i \in n + 1 .. Len(full) : full[i] \in Whitespace
        /\ n = 0 \/ full[n] \notin Whitespace

\* The block of the k-th Sentence but for its text line.
BlockOk(k) ==
    LET b == BlockStart(k)
    IN  /\ b + 1 + Len(WordsOf(k)) <= Len(DocLines)
        /\ DocLines[b] = <<"# sent_id =", Blank, IntToStr(k)>>
        /\ \A i \in DOMAIN WordsOf(k) : WordLineOk(DocLines[b + 1 + i], WordsOf(k)[i])

\* C16 as stated: the k-th Sentence gives the line "# sent_id = k", the line
\* "# text = <sentence text>", then one line for each Word, in order, of ten
\* tab-separated fields with DEPS and MISC "_" and FEATS "_" when absent; there
\* are as many word lines as Words.
C16_SentenceBlocks ==
    ConlluWritten =>
        /\ \A k \in DOMAIN doc :
              /\ BlockOk(k)
              /\ DocLines[BlockStart(k) + 1] = TextLine(k)
        /\ WordLineCount = WordCount(Len(doc))

\* C16 amended: as stated, but the text line of a last Sentence that has no
\* Word is written without its trailing whitespace.
C16_SentenceBlocksLastTrimmed ==
    ConlluWritten =>
        /\ \A k \in DOMAIN doc :
              /\ BlockOk(k)
              /\ IF k = Len(doc) /\ WordsOf(k) = <<>>
                 THEN IsTrimmed(TextLine(k), DocLines[BlockStart(k) + 1])
                 ELSE DocLines[BlockStart(k) + 1] = TextLine(k)
        /\ WordLineCount = WordCount(Len(doc))

\* A Token of two Words gives two word lines.
C16_Witness ==
    /\ ConlluWritten
    /\ Len(doc) = 1
    /\ Len(doc[1].tokens) = 1
    /\ Len(doc[1].tokens[1].words) = 2
    /\ WordLineCount = 2

EndsWithOneNewline ==
    /\ out.text # <<>>
    /\ out.text[Len(out.text)] = Newline
    /\ Len(out.text) > 1 => out.text[Len(out.text) - 1] \notin Whitespace

\* The number of the line that follows the block of the k-th Sentence.
AfterBlock(k) == BlockStart(k) + Len(WordsOf(k)) + 2

\* Exactly one blank line follows the block of every Sentence but the last.
InnerBlocksSeparated ==
    \A k \in DOMAIN doc :
        k < Len(doc) =>
            /\ AfterBlock(k) + 1 <= Len(DocLines)
            /\ DocLines[AfterBlock(k)] = <<>>
            /\ DocLines[AfterBlock(k) + 1] # <<>>

\* C17 as stated: the output ends with exactly one newline and no other
\* trailing whitespace, one blank line follows every sentence block but
\* possibly the last, and every sentence block is ended by a blank line.
C17_EveryBlockEndsBlank ==
    ConlluWritten =>
        /\ EndsWithOneNewline
        /\ InnerBlocksSeparated
        /\ \A k \in DOMAIN doc :
              AfterBlock(k) <= Len(DocLines) /\ DocLines[AfterBlock(k)] = <<>>

\* C17 amended: the output ends with exactly one newline and no other trailing
\* whitespace; exactly one blank line follows every sentence block but the
\* last; no blank line follows the last block, whose last line is the last
\* line of the output.
C17_LastBlockNotEndedBlank ==
    ConlluWritten =>
        /\ EndsWithOneNewline
        /\ InnerBlocksSeparated
        /\ doc # <<>> => Len(DocLines) = AfterBlock(Len(doc)) - 1
        /\ doc = <<>> => out.text = <<Newline>>

\* Two Sentences, the last without Words and with a text that ends in a blank.
C17_Witness ==
    /\ ConlluWritten
    /\ Len(doc) = 2
    /\ WordsOf(1) # <<>>
    /\ WordsOf(2) = <<>>
    /\ doc[2].text = "t "
    /\ DocLines[Len(DocLines)] = <<"# text =", Blank, "t">>

(***************************************************************************)
(* Claims about placeholders.  C18 is checked under SpecTsv, C19 under     *)
(* SpecConllu.                                                             *)
(***************************************************************************)
Placeholder(x) == IF IsAbsent(x) THEN "_" ELSE x

HeadText(w) == IF w.head = Null THEN "0" ELSE IntToStr(Val(w.head))

\* C18: in every data row of doc_to_tsv a missing (null or empty) lemma, UPOS,
\* XPOS or DEPREL of the row's Word is written as "_", a missing HEAD as "0",
\* and a value that is present is written unchanged, whatever Word id a HEAD
\* names.
C18_TsvPlaceholders ==
    Written =>
        \A s \in DOMAIN doc : \A t \in DOMAIN doc[s].tokens :
            LET w == doc[s].tokens[t].words[1]
            IN  /\ t <= Len(RowsOfSent(s))
                /\ RowsOfSent(s)[t][4] = Placeholder(w.lemma)
                /\ RowsOfSent(s)[t][5] = Placeholder(w.upos)
                /\ RowsOfSent(s)[t][6] = Placeholder(w.xpos)
                /\ RowsOfSent(s)[t][7] = HeadText(w)
                /\ RowsOfSent(s)[t][8] = Placeholder(w.deprel)

\* An empty lemma, a null UPOS, a DEPREL that is present, a HEAD of 9.
C18_Witness ==
    /\ Written
    /\ doc = WordDoc([id |-> 1, text |-> "a", lemma |-> "", upos |-> None, xpos |-> "n",
                      feats |-> None, head |-> Some(9), deprel |-> "obj"])
    /\ DataRows = <<<<"1", "1", "a", "_", "_", "n", "9", "obj", "O">>>>

\* C19: for a Word whose lemma, UPOS, XPOS, FEATS or DEPREL is absent, both
\* doc_to_tsv and doc_to_conllu write the placeholder "_" for the absent field,
\* never another text such as "None".
C19_AbsentAsPlaceholder ==
    /\ Written =>
          \A s \in DOMAIN doc : \A t \in DOMAIN doc[s].tokens :
              LET w == doc[s].tokens[t].words[1]
                  r == RowsOfSent(s)[t]
              IN  /\ w.lemma = None => r[4] = "_"
                  /\ w.upos = None => r[5] = "_"
                  /\ w.xpos = None => r[6] = "_"
                  /\ w.deprel = None => r[8] = "_"
    /\ ConlluWritten =>
          \A k \in DOMAIN doc : \A i \in DOMAIN WordsOf(k) :
              LET w == WordsOf(k)[i]
                  f == SplitAt(DocLines[BlockStart(k) + 1 + i], Tab)
              IN  /\ w.lemma = None => f[3] = <<"_">>
                  /\ w.upos = None => f[4] = <<"_">>
                  /\ w.xpos = None => f[5] = <<"_">>
                  /\ w.feats = None => f[6] = <<"_">>
                  /\ w.deprel = None => f[8] = <<"_">>

(***************************************************************************)
(* Claims about lemma_freqs, checked under SpecLemma.                      *)
(***************************************************************************)
LemmaCounted == pc = "done" /\ args.fn = "lemma_freqs" /\ out.kind = "ok"

LemmaValues == Range(Column(df, "LEMMA"))

\* The row at which the lemma first occurs in the table.
FirstOccurrence(l) ==
    CHOOSE i \in DOMAIN df.rows :
        df.rows[i]["LEMMA"] = l /\ \A j \in 1 .. i - 1 : df.rows[j]["LEMMA"] # l

Min(a, b) == IF a < b THEN a ELSE b

\* C20: lemma_freqs(top) has min(top, number of distinct lemmas) rows, each
\* with the number of table rows of its lemma, in non-increasing order of
\* count; no lemma left out has a higher count than one included; lemmas of
\* equal count are in the order of their first occurrence in the table.
C20_TopLemmasFirstSeen ==
    LemmaCounted =>
        LET rows    == out.rows
            listed  == {rows[i]["LEMMA"] : i \in DOMAIN rows}
        IN  /\ Len(rows) = Min(args.top, Cardinality(LemmaValues))
            /\ Cardinality(listed) = Len(rows)
            /\ \A i \in DOMAIN rows :
                  /\ rows[i]["LEMMA"] \in LemmaValues
                  /\ rows[i]["count"] = Occurrences("LEMMA", rows[i]["LEMMA"])
            /\ \A i, j \in DOMAIN rows : i < j => rows[i]["count"] >= rows[j]["count"]
            /\ \A l \in LemmaValues \ listed : \A i \in DOMAIN rows :
                  Occurrences("LEMMA", l) <= rows[i]["count"]
            /\ \A i, j \in DOMAIN rows :
                  (i < j /\ rows[i]["count"] = rows[j]["count"]) =>
                      FirstOccurrence(rows[i]["LEMMA"]) < FirstOccurrence(rows[j]["LEMMA"])

(***************************************************************************)
(* Claims about sentence_lengths, checked under SpecLengths.               *)
(***************************************************************************)
LengthsCounted == pc = "done" /\ args.fn = "sentence_lengths" /\ out.kind = "ok"

\* C21: sentence_lengths has one row for each distinct sent_ix of the table,
\* whose length is the number of table rows of that sent_ix, and the lengths
\* add up to the number of rows of the table, the rows of a null sent_ix
\* included.
C21_LengthsCoverRows ==
    LengthsCounted =>
        LET rows == out.rows
            ids  == {Val(df.rows[i]["sent_ix"]) :
                        i \in {i \in DOMAIN df.rows : df.rows[i]["sent_ix"] # Null}}
        IN  /\ {rows[g].sent_ix : g \in DOMAIN rows} = ids
            /\ Len(rows) = Cardinality(ids)
            /\ \A g \in DOMAIN rows :
                  rows[g].length = Occurrences("sent_ix", Some(rows[g].sent_ix))
            /\ SumSeq([g \in DOMAIN rows |-> rows[g].length]) = Len(df.rows)

(***************************************************************************)
(* Claims about the rows of multi-word Tokens, checked under SpecTsv.      *)
(***************************************************************************)
\* C22: doc_to_tsv writes exactly one row for every Token, a multi-word Token
\* included; its FORM is the text of the Token and its LEMMA, UPOS, XPOS, HEAD
\* and DEPREL are those of the first Word of the Token, so that the other
\* Words of the Token appear nowhere in the rows.
C22_OneRowPerTokenFirstWord ==
    Written =>
        /\ RowsCountTokens
        /\ \A s \in DOMAIN doc :
              /\ Len(RowsOfSent(s)) = Len(doc[s].tokens)
              /\ \A t \in DOMAIN doc[s].tokens :
                    LET tok == doc[s].tokens[t]
                        w   == tok.words[1]
                        r   == RowsOfSent(s)[t]
                    IN  /\ Len(r) = Len(Header)
                        /\ r[2] = IntToStr(t)
                        /\ r[3] = tok.text
                        /\ r[4] = Placeholder(w.lemma)
                        /\ r[5] = Placeholder(w.upos)
                        /\ r[6] = Placeholder(w.xpos)
                        /\ r[7] = HeadText(w)
                        /\ r[8] = Placeholder(w.deprel)
                        /\ \A k \in 2 .. Len(tok.words) :
                              tok.words[k].text \notin Range(r)

\* The Token "del" of the Words "de" and "el", after a one-word Token.
C22_Witness ==
    /\ Written
    /\ Len(doc) = 1
    /\ Len(doc[1].tokens) = 2
    /\ doc[1].tokens[1].text = "a"
    /\ doc[1].tokens[2].text = "del"
    /\ Len(doc[1].tokens[2].words) = 2
    /\ DataRows = <<<<"1", "1", "a", "a", "NOUN", "n", "0", "root", "O">>,
                    <<"1", "2", "del", "a", "NOUN", "n", "0", "root", "O">>>>

Covering(sent, i) == {k \in DOMAIN sent.ents : i \in Covered(sent.ents[k], sent)}

Last(K) == CHOOSE k \in K : \A k2 \in K : k2 <= k

\* The label Entity e writes at position i, one of the positions it covers.
LabelBy(e, sent, i) ==
    IF \A j \in Covered(e, sent) : i <= j THEN "B-" \o e.type ELSE "I-" \o e.type

\* C24: the Entities are applied in the order of the Sentence: a Token that
\* several Entities cover has the label of the last of them, B-<type> when it
\* is the lowest position that Entity covers and I-<type> otherwise.
C24_LastEntityWins ==
    Written =>
        \A s \in DOMAIN doc : \A i \in DOMAIN doc[s].tokens :
            LET K == Covering(doc[s], i)
            IN  Cardinality(K) > 1 =>
                    NerOf(s, i) = LabelBy(doc[s].ents[Last(K)], doc[s], i)

\* PER on Tokens 1-2, then LOC on Tokens 2-3: Token 2 is B-LOC.
C24_Witness ==
    /\ Written
    /\ Len(doc) = 1
    /\ Len(doc[1].tokens) = 3
    /\ Len(doc[1].ents) = 2
    /\ doc[1].ents[1].type = "PER"
    /\ doc[1].ents[2].type = "LOC"
    /\ Covered(doc[1].ents[1], doc[1]) = {1, 2}
    /\ Covered(doc[1].ents[2], doc[1]) = {2, 3}
    /\ NerOf(1, 1) = "B-PER"
    /\ NerOf(1, 2) = "B-LOC"
    /\ NerOf(1, 3) = "I-LOC"

\* An Entity some of whose Tokens are not Tokens of the Sentence.
HasAbsentToken(e, sent) ==
    \E k \in DOMAIN e.tokens : \A i \in DOMAIN sent.tokens : sent.tokens[i].oid # e.tokens[k]

\* C25: an Entity without Tokens, or whose Tokens are all absent from the
\* Sentence, changes no label and raises no error; an Entity with some Tokens
\* absent labels the Tokens that are present, B-<type> on the lowest of them.
\* So in a Sentence with such an Entity every Token has the label of the last
\* Entity that covers it, and O when none does.
C25_AbsentTokensSkipped ==
    /\ (pc # "doc") => Written
    /\ Written =>
          \A s \in DOMAIN doc :
              (\E k \in DOMAIN doc[s].ents :
                    \/ doc[s].ents[k].tokens = <<>>
                    \/ HasAbsentToken(doc[s].ents[k], doc[s]))
              => /\ Len(RowsOfSent(s)) = Len(doc[s].tokens)
                 /\ \A i \in DOMAIN doc[s].tokens :
                       NerOf(s, i) =
                           IF Covering(doc[s], i) = {} THEN "O"
                           ELSE LabelBy(doc[s].ents[Last(Covering(doc[s], i))], doc[s], i)

\* Three Tokens; a PER Entity of Token 2 and an absent Token, and a LOC Entity
\* of an absent Token only.
C25_Witness ==
    /\ Written
    /\ Len(doc) = 1
    /\ Len(doc[1].tokens) = 3
    /\ Len(doc[1].ents) = 2
    /\ doc[1].ents[1].type = "PER"
    /\ doc[1].ents[1].tokens = <<<<1, 2>>, <<1, 4>>>>
    /\ doc[1].ents[2].type = "LOC"
    /\ doc[1].ents[2].tokens = <<<<1, 4>>>>
    /\ NerOf(1, 1) = "O"
    /\ NerOf(1, 2) = "B-PER"
    /\ NerOf(1, 3) = "O"

IsB(l, ty) == l = "B-" \o ty

IsI(l, ty) == l = "I-" \o ty

\* C27: in a Sentence whose Entities do not overlap and each cover a
\* contiguous run of Tokens or none, every I-<type> label follows a B-<type>
\* or I-<type> label of the same type in the same Sentence, and there are as
\* many B- labels as Entities that cover a Token.
C27_BioWellFormed ==
    Written =>
        \A s \in DOMAIN doc :
            LET sent == doc[s]
                runs == \A k \in DOMAIN sent.ents :
                            LET P == Covered(sent.ents[k], sent)
                            IN  P = {} \/ Contiguous(P)
            IN  (NonOverlapping(sent) /\ runs) =>
                    /\ \A i \in DOMAIN sent.tokens : \A ty \in EntTypes :
                          IsI(NerOf(s, i), ty) =>
                              /\ i > 1
                              /\ IsB(NerOf(s, i - 1), ty) \/ IsI(NerOf(s, i - 1), ty)
                    /\ Cardinality({i \in DOMAIN sent.tokens :
                                        \E ty \in EntTypes : IsB(NerOf(s, i), ty)})
                          = Cardinality({k \in DOMAIN sent.ents :
                                            Covered(sent.ents[k], sent) # {}})

\* PER on Token 1, then LOC on Tokens 2-3.
C27_Witness ==
    /\ Written
    /\ Len(doc) = 1
    /\ Len(doc[1].tokens) = 3
    /\ Len(doc[1].ents) = 2
    /\ Covered(doc[1].ents[1], doc[1]) = {1}
    /\ Covered(doc[1].ents[2], doc[1]) = {2, 3}
    /\ NerOf(1, 1) = "B-PER"
    /\ NerOf(1, 2) = "B-LOC"
    /\ NerOf(1, 3) = "I-LOC"

(***************************************************************************)
(* Claims about the second pass of validate_processors, checked under      *)
(* SpecProc.                                                               *)
(***************************************************************************)
\* C26: whenever tokenize is among the entries it is already the first entry
\* after the priority sort, so the second pass never fires: no input gets the
\* warning "Reordenado: 'tokenize' movido al inicio.".
C26_SecondPassNeverFires ==
    ProcDone =>
        LET sorted == SortedByPriority(DropRepeats(InputEntries))
        IN  /\ "tokenize" \in Range(InputEntries) =>
                  /\ sorted[1] = "tokenize"
                  /\ out.normalized = Join(sorted, ",")
            /\ ~ReorderWarned

\* tokenize after ner and an unknown entry in the input.
C26_Witness ==
    /\ ProcDone
    /\ args.proc_str = <<"xx", ",", "ner", ",", "tokenize">>
    /\ out.normalized = "tokenize,ner,xx"
    /\ out.warnings = <<Warning(UnknownText, "xx")>>

(***************************************************************************)
(* Claims about cooccurrences_within_window with nothing to count, checked *)
(* under SpecCooc.                                                         *)
(***************************************************************************)
\* No two tokens that are kept fall within the window in any group.
NoPairInWindow ==
    LET groups == IF args.by_sent THEN SentTokens ELSE <<GlobalTokens>>
    IN  \A g \in DOMAIN groups : \A i, j \in DOMAIN groups[g] :
            i < j => j - i > args.window

\* C28: on a table that has every column it reads, when no two tokens fall
\* within the window in any group (no row, one token in every sentence, a
\* window of 0, every token excluded) cooccurrences_within_window returns the
\* empty table and raises nothing, so build_all_stats succeeds on a table of
\* one-token sentences.
C28_NoPairEmptyTable ==
    (pc = "done" /\ args.fn = "cooc" /\ NoPairInWindow) =>
        /\ out.kind = "ok"
        /\ out.rows = <<>>

(***************************************************************************)
(* Claims about the workers of the GUI, checked under SpecGui and          *)
(* SpecGuiFair.                                                            *)
(***************************************************************************)
\* The workers whose target is executing.
Executing == {w \in DOMAIN pc : pc[w].at = "target"}

\* The workers that have not finished btn_enable_all.
Unfinished == {w \in DOMAIN pc : pc[w].at # "done"}

AllEnabled == \A b \in AllButtons : out.buttons[b] = "normal"

\* C29: at most one target is executing at a time: from the click that
\* disables the buttons until its worker has finished enabling them again, no
\* button is enabled, so that no second worker is started.
C29_OneWorkerAtATime ==
    /\ Cardinality(Executing) <= 1
    /\ Executing # {} => \A b \in AllButtons : out.buttons[b] = "disabled"
    /\ Cardinality(Unfinished) <= 1

\* The messages worker w has put on the log queue, drained or not.
MessagesOf(w) ==
    LET all == out.txt_log \o out.log_queue
    IN  {i \in DOMAIN all : all[i].worker = w}

====
